---- MODULE Spec2Model ----
(***************************************************************************)
(* A model of the coalesce Library Abstraction Layer (pattern registry,    *)
(* library transformer, dependency detector) and of the node-kind mapping  *)
(* tables of the tree-based front ends.                                    *)
(*                                                                         *)
(* Conventions                                                             *)
(*  - Rust String / &str values are TLA+ strings.                          *)
(*  - Option<T> is None or Some(v); Result<T> is Ok(v) or Err(e).          *)
(*  - A HashMap is a function whose DOMAIN is its key set.  Where the code *)
(*    iterates a HashMap the model takes every iteration order.            *)
(*  - f32 confidences are kept in tenths (1.0 is 10, 0.8 is 8).            *)
(*  - Record fields that no modelled operation reads (signature,           *)
(*    parameters, parameter_mappings, side_effects, ...) are left out.     *)
(***************************************************************************)
EXTENDS Integers, Sequences, FiniteSets, TLC

VARIABLES
    patterns,     \* LibraryRegistry.patterns: library -> (name -> LibraryPattern)
    ecosystems,   \* LibraryRegistry.ecosystems: library -> Vec<String>
    lastWrite,    \* history: (library, name) -> the pattern last passed to register_pattern
    parsed,       \* history: (front end, source) -> the tree parse first returned for it
    threads,      \* the callers that share the registry: thread -> its position
    call,         \* the last call made on the public interface, with its arguments
    ret           \* what that call returned

vars == <<patterns, ecosystems, lastWrite, parsed, threads, call, ret>>

(***************************************************************************)
(* Option, Result, maps, sequences                                         *)
(***************************************************************************)
None == [some |-> FALSE]
Some(v) == [some |-> TRUE, v |-> v]

Ok(v) == [ok |-> TRUE, v |-> v]
Err(e) == [ok |-> FALSE, err |-> e]
Unit == "()"

EmptyMap == [k \in {} |-> k]
MapPut(m, k, v) == [x \in (DOMAIN m) \cup {k} |-> IF x = k THEN v ELSE m[x]]
MapGet(m, k) == IF k \in DOMAIN m THEN Some(m[k]) ELSE None

\* every enumeration of the finite set S as a sequence without repetition
Perms(S) ==
    {s \in [1..Cardinality(S) -> S] : \A i, j \in 1..Cardinality(S) : s[i] = s[j] => i = j}

RECURSIVE Flatten(_)
Flatten(ss) == IF ss = <<>> THEN <<>> ELSE Head(ss) \o Flatten(Tail(ss))

Range(s) == {s[i] : i \in DOMAIN s}

(***************************************************************************)
(* Built-in pattern tables (patterns.rs)                                   *)
(***************************************************************************)
Rule(tl, tp, tpl, imps) ==
    [target_library |-> tl, target_pattern |-> tp, template |-> tpl,
     imports |-> imps, setup_code |-> None, cleanup_code |-> None]

Pattern(n, l, e, intent, category, behavior, tr) ==
    [name |-> n, library |-> l, ecosystem |-> e,
     semantics |-> [intent |-> intent, category |-> category, behavior |-> behavior],
     transformations |-> tr]

ReactUseState ==
    Pattern("useState", "react", "javascript", "reactive_state_management", "state",
            "Creates reactive state that triggers re-renders",
            [e \in {"vue", "svelte"} |->
                IF e = "vue"
                THEN Rule("vue", "ref", "const {{state}} = ref({{initialValue}})",
                          <<"import { ref } from 'vue'">>)
                ELSE Rule("svelte", "writable", "const {{state}} = writable({{initialValue}})",
                          <<"import { writable } from 'svelte/store'">>)])

ReactUseEffect ==
    Pattern("useEffect", "react", "javascript", "side_effect_lifecycle", "lifecycle",
            "Executes side effects after render",
            [e \in {"vue"} |->
                Rule("vue", "watchEffect", "watchEffect(() => { {{callback}} })",
                     <<"import { watchEffect } from 'vue'">>)])

react_patterns == <<ReactUseState, ReactUseEffect>>

DjangoModel ==
    Pattern("Model", "django", "python", "orm_model", "database",
            "Defines a database table structure",
            [e \in {"sqlalchemy"} |->
                Rule("sqlalchemy", "declarative_base",
                     "class {{name}}(Base):\n    __tablename__ = '{{table_name}}'",
                     <<"from sqlalchemy.ext.declarative import declarative_base",
                       "Base = declarative_base()">>)])

DjangoCharField ==
    Pattern("CharField", "django", "python", "text_field", "database_field",
            "Defines a text field in database",
            [e \in {"sqlalchemy"} |->
                Rule("sqlalchemy", "String", "{{field_name}} = Column(String({{max_length}}))",
                     <<"from sqlalchemy import Column, String">>)])

django_patterns == <<DjangoModel, DjangoCharField>>

SocketTcpSocket ==
    Pattern("tcp_socket", "socket", "c", "tcp_socket_creation", "networking",
            "Creates a TCP socket for network communication",
            [e \in {"rust", "go", "python"} |->
                CASE e = "rust" ->
                        Rule("std", "TcpStream",
                             "let stream = TcpStream::connect(\"{{address}}:{{port}}\")",
                             <<"use std::net::TcpStream">>)
                  [] e = "go" ->
                        Rule("net", "Dial",
                             "conn, err := net.Dial(\"tcp\", \"{{address}}:{{port}}\")",
                             <<"import \"net\"">>)
                  [] OTHER ->
                        Rule("socket", "socket",
                             "sock = socket.socket(socket.AF_INET, socket.SOCK_STREAM)",
                             <<"import socket">>)])

networking_patterns == <<SocketTcpSocket>>

(***************************************************************************)
(* Patterns a caller may register besides the built-in ones                *)
(* (register_pattern takes any LibraryPattern).                            *)
(***************************************************************************)
\* same key as the built-in react/useState, other rules: a conflicting write
ReactUseStateSolid ==
    Pattern("useState", "react", "javascript", "reactive_state_management", "state",
            "Creates reactive state",
            [e \in {"solid"} |->
                Rule("solid", "createSignal", "const [{{state}}] = createSignal({{initial}})",
                     <<"import { createSignal } from 'solid-js'">>)])

\* same key as the built-in react/useEffect; its rule needs no import and
\* carries setup and cleanup code
ReactUseEffectSolid ==
    Pattern("useEffect", "react", "javascript", "side_effect_lifecycle", "lifecycle",
            "Runs a tracked effect",
            [e \in {"solid"} |->
                [Rule("solid", "createEffect", "createEffect(() => { {{callback}} })", <<>>)
                    EXCEPT !.setup_code = Some("const dispose = createRoot((d) => d)"),
                           !.cleanup_code = Some("onCleanup(dispose)")]])

\* semantic equivalents of react/useState living in the vue ecosystem
VueRef ==
    Pattern("ref", "vue", "vue", "reactive_state_management", "state",
            "Creates a reactive reference", EmptyMap)

PiniaStore ==
    Pattern("defineStore", "pinia", "vue", "reactive_state_management", "state",
            "Creates a reactive store", EmptyMap)

\* same intent and target ecosystem, but inside the source library itself
ReactVueCompat ==
    Pattern("useStateCompat", "react", "vue", "reactive_state_management", "state",
            "Compatibility shim", EmptyMap)

\* same intent, other ecosystem
SvelteWritable ==
    Pattern("writable", "svelte", "svelte", "reactive_state_management", "state",
            "Creates a writable store", EmptyMap)

DefaultPatterns == react_patterns \o django_patterns \o networking_patterns

ExtraPatterns == {ReactUseStateSolid, VueRef, PiniaStore, ReactVueCompat, SvelteWritable}

PatternPool == Range(DefaultPatterns) \cup ExtraPatterns

Libraries == {p.library : p \in PatternPool} \cup {"lodash"}
PatternNames == {p.name : p \in PatternPool} \cup {"socket"}
Ecosystems == {"vue", "svelte", "sqlalchemy", "rust", "solid", "vanilla"}
Intents == {p.semantics.intent : p \in PatternPool} \cup {"unknown_intent"}

(***************************************************************************)
(* LibraryRegistry (registry.rs)                                           *)
(***************************************************************************)
\* first write wins: entry().or_insert instead of insert
register_pattern_keep_first(pats, pattern) ==
    LET lib == IF pattern.library \in DOMAIN pats THEN pats[pattern.library] ELSE EmptyMap
    IN  MapPut(pats, pattern.library,
               IF pattern.name \in DOMAIN lib THEN lib ELSE MapPut(lib, pattern.name, pattern))

\* register_pattern: the patterns map after registering `pattern`
register_pattern(pats, pattern) ==
    LET library_patterns ==
            IF pattern.library \in DOMAIN pats THEN pats[pattern.library] ELSE EmptyMap
    IN  MapPut(pats, pattern.library, MapPut(library_patterns, pattern.name, pattern))

get_pattern(pats, library, pattern_name) ==
    IF library \notin DOMAIN pats THEN None
    ELSE MapGet(pats[library], pattern_name)

get_library_patterns(pats, library) == MapGet(pats, library)

get_target_ecosystems(ecos, source_library) ==
    IF source_library \in DOMAIN ecos THEN ecos[source_library] ELSE <<>>

register_ecosystem_mappings(ecos) ==
    MapPut(MapPut(MapPut(ecos,
        "react", <<"vue", "svelte", "angular", "vanilla">>),
        "django", <<"sqlalchemy", "fastapi", "flask">>),
        "socket", <<"rust", "go", "python", "javascript">>)

RECURSIVE register_all(_, _)
register_all(pats, ps) ==
    IF ps = <<>> THEN pats ELSE register_all(register_pattern(pats, Head(ps)), Tail(ps))

\* a construction that registers the React patterns only
register_defaults_react_only(pats) == register_all(pats, react_patterns)

\* register_defaults: react, django, networking patterns in this order
register_defaults(pats) ==
    register_all(register_all(register_all(pats, react_patterns), django_patterns),
                 networking_patterns)

\* find_equivalent_patterns: every vector the scan can return.  The outer loop
\* visits the libraries and the inner loop the names in HashMap iteration order,
\* so the hits of one library stay together and every such order is possible.
find_equivalent_patterns(pats, semantic_intent) ==
    LET Hits(l) == {n \in DOMAIN pats[l] : pats[l][n].semantics.intent = semantic_intent}
        libs == {l \in DOMAIN pats : Hits(l) # {}}
    IN  { Flatten([i \in 1..Cardinality(libs) |->
                      [j \in 1..Cardinality(Hits(lo[i])) |-> pats[lo[i]][no[lo[i]][j]]]]) :
            lo \in Perms(libs),
            no \in {f \in [libs -> UNION {Perms(Hits(l)) : l \in libs}] :
                        \A l \in libs : f[l] \in Perms(Hits(l))} }

DirectConfidence == 10
SemanticConfidence == 8

Suggestion(c, t, tl, tp, d) ==
    [confidence |-> c, suggestion_type |-> t, target_library |-> tl,
     target_pattern |-> tp, description |-> d]

\* ascending instead of descending: a.partial_cmp(b)
RECURSIVE sort_by_confidence_ascending(_)
sort_by_confidence_ascending(s) ==
    IF s = <<>> THEN <<>>
    ELSE LET rest == sort_by_confidence_ascending(SubSeq(s, 1, Len(s) - 1))
             x == s[Len(s)]
             k == Cardinality({i \in DOMAIN rest : rest[i].confidence <= x.confidence})
         IN  SubSeq(rest, 1, k) \o <<x>> \o SubSeq(rest, k + 1, Len(rest))

\* suggestions.sort_by(|a, b| b.confidence.partial_cmp(&a.confidence)): a stable
\* sort, descending by confidence; equal confidences keep their order
RECURSIVE sort_by_confidence(_)
sort_by_confidence(s) ==
    IF s = <<>> THEN <<>>
    ELSE LET rest == sort_by_confidence(SubSeq(s, 1, Len(s) - 1))
             x == s[Len(s)]
             k == Cardinality({i \in DOMAIN rest : rest[i].confidence >= x.confidence})
         IN  SubSeq(rest, 1, k) \o <<x>> \o SubSeq(rest, k + 1, Len(rest))

\* the filter without the test on the library
is_semantic_equivalent_any_library(equiv_pattern, source_library, target_ecosystem) ==
    equiv_pattern.ecosystem = target_ecosystem

\* the condition under which an equivalent pattern becomes a suggestion
is_semantic_equivalent(equiv_pattern, source_library, target_ecosystem) ==
    equiv_pattern.ecosystem = target_ecosystem /\ equiv_pattern.library # source_library

\* get_transformation_suggestions: every list the call can return
get_transformation_suggestions(pats, source_library, pattern_name, target_ecosystem) ==
    LET found == get_pattern(pats, source_library, pattern_name)
    IN  IF ~found.some THEN {<<>>}
        ELSE LET pattern == found.v
                 direct ==
                    IF target_ecosystem \in DOMAIN pattern.transformations
                    THEN << Suggestion(DirectConfidence, "DirectTransform",
                              pattern.transformations[target_ecosystem].target_library,
                              pattern.transformations[target_ecosystem].target_pattern,
                              "Direct transformation to " \o target_ecosystem) >>
                    ELSE <<>>
                 Keep(q) == is_semantic_equivalent(q, source_library, target_ecosystem)
                 Sem(eqs) ==
                    LET kept == SelectSeq(eqs, Keep)
                    IN  [i \in 1..Len(kept) |->
                            Suggestion(SemanticConfidence, "SemanticEquivalent",
                                       kept[i].library, kept[i].name,
                                       "Semantic equivalent: " \o kept[i].name)]
             IN  { sort_by_confidence(direct \o Sem(eqs)) :
                     eqs \in find_equivalent_patterns(pats, pattern.semantics.intent) }

(***************************************************************************)
(* The registry as a state machine: LibraryRegistry::new(), then any       *)
(* sequence of registrations and queries.                                  *)
(***************************************************************************)
Key(p) == <<p.library, p.name>>

\* the caller is between two calls
IdleCall == [op |-> "idle"]
Idle == call.op = "idle"

\* the caller takes the result of the call it made
Return ==
    /\ ~Idle
    /\ call' = IdleCall
    /\ ret' = Ok(Unit)
    /\ UNCHANGED <<patterns, ecosystems, lastWrite, parsed, threads>>

RECURSIVE NoteWrites(_, _)
NoteWrites(lw, ps) ==
    IF ps = <<>> THEN lw ELSE NoteWrites(MapPut(lw, Key(Head(ps)), Head(ps)), Tail(ps))

\* patterns a caller registers in the registry runs
RegistryPool ==
    {ReactUseState, ReactUseEffect, ReactUseStateSolid, VueRef, PiniaStore,
     ReactVueCompat, SvelteWritable}

QueryLibraries == {"react", "vue", "lodash"}
QueryNames == {"useState", "useEffect", "ref"}
QueryEcosystems == {"vue", "svelte", "solid"}
QueryIntents == {"reactive_state_management", "side_effect_lifecycle", "unknown_intent"}

InitRegistry ==
    /\ patterns = EmptyMap
    /\ ecosystems = EmptyMap
    /\ lastWrite = EmptyMap
    /\ parsed = EmptyMap
    /\ threads = <<>>
    /\ call = IdleCall
    /\ ret = Ok(Unit)

RegisterPattern ==
    /\ Idle
    /\ \E p \in RegistryPool :
        /\ patterns' = register_pattern(patterns, p)
        /\ lastWrite' = NoteWrites(lastWrite, <<p>>)
        /\ call' = [op |-> "register_pattern", pattern |-> p,
                    prev |-> get_pattern(patterns, p.library, p.name)]
        /\ ret' = Ok(Unit)
        /\ UNCHANGED <<ecosystems, parsed, threads>>

RegisterDefaults ==
    /\ Idle
    /\ patterns' = register_defaults(patterns)
    /\ ecosystems' = register_ecosystem_mappings(ecosystems)
    /\ lastWrite' = NoteWrites(lastWrite, DefaultPatterns)
    /\ call' = [op |-> "register_defaults"]
    /\ ret' = Ok(Unit)
    /\ UNCHANGED <<parsed, threads>>

GetPattern ==
    /\ Idle
    /\ \E l \in QueryLibraries, n \in QueryNames :
        /\ call' = [op |-> "get_pattern", library |-> l, pattern_name |-> n]
        /\ ret' = get_pattern(patterns, l, n)
        /\ UNCHANGED <<patterns, ecosystems, lastWrite, parsed, threads>>

GetLibraryPatterns ==
    /\ Idle
    /\ \E l \in QueryLibraries :
        /\ call' = [op |-> "get_library_patterns", library |-> l]
        /\ ret' = get_library_patterns(patterns, l)
        /\ UNCHANGED <<patterns, ecosystems, lastWrite, parsed, threads>>

GetTargetEcosystems ==
    /\ Idle
    /\ \E l \in QueryLibraries :
        /\ call' = [op |-> "get_target_ecosystems", source_library |-> l]
        /\ ret' = get_target_ecosystems(ecosystems, l)
        /\ UNCHANGED <<patterns, ecosystems, lastWrite, parsed, threads>>

FindEquivalentPatterns ==
    /\ Idle
    /\ \E i \in QueryIntents :
        /\ call' = [op |-> "find_equivalent_patterns", semantic_intent |-> i]
        /\ ret' \in find_equivalent_patterns(patterns, i)
        /\ UNCHANGED <<patterns, ecosystems, lastWrite, parsed, threads>>

GetTransformationSuggestions ==
    /\ Idle
    /\ \E l \in QueryLibraries, n \in QueryNames, e \in QueryEcosystems :
        /\ call' = [op |-> "get_transformation_suggestions", source_library |-> l,
                    pattern_name |-> n, target_ecosystem |-> e]
        /\ ret' \in get_transformation_suggestions(patterns, l, n, e)
        /\ UNCHANGED <<patterns, ecosystems, lastWrite, parsed, threads>>

NextRegistry ==
    \/ RegisterPattern
    \/ RegisterDefaults
    \/ GetPattern
    \/ GetLibraryPatterns
    \/ GetTargetEcosystems
    \/ FindEquivalentPatterns
    \/ GetTransformationSuggestions
    \/ Return

SpecRegistry == InitRegistry /\ [][NextRegistry]_vars

\* all registered patterns, as a set
Registered == {patterns[l][n] : <<l, n>> \in {k \in (DOMAIN patterns) \X PatternNames :
                                                k[2] \in DOMAIN patterns[k[1]]}}

(***************************************************************************)
(* Claims about the registry, checked under SpecRegistry                   *)
(***************************************************************************)
IsSuggestionCall == call.op = "get_transformation_suggestions"

SourcePattern == get_pattern(patterns, call.source_library, call.pattern_name)

\* C4: the list get_transformation_suggestions returns is sorted by confidence,
\* descending; when the pattern has a direct rule for the target ecosystem and
\* semantic equivalents exist too, the first element is the DirectTransform
\* suggestion with confidence 1.0 and every 0.8 suggestion comes after it.
C4_RankingSorted ==
    IsSuggestionCall =>
        /\ \A i, j \in DOMAIN ret : i < j => ret[i].confidence >= ret[j].confidence
        /\ (/\ SourcePattern.some
            /\ call.target_ecosystem \in DOMAIN SourcePattern.v.transformations
            /\ Len(ret) > 1)
           => /\ ret[1].suggestion_type = "DirectTransform"
              /\ ret[1].confidence = DirectConfidence
              /\ \A i \in 2..Len(ret) : /\ ret[i].suggestion_type = "SemanticEquivalent"
                                        /\ ret[i].confidence = SemanticConfidence

\* a direct rule and two semantic equivalents are suggested together
C4_Witness ==
    /\ IsSuggestionCall
    /\ Len(ret) = 3
    /\ ret[1].suggestion_type = "DirectTransform"
    /\ ret[2].suggestion_type = "SemanticEquivalent"

\* the registered patterns that qualify as semantic equivalents of the call
EquivalentsOfCall ==
    {q \in Registered : /\ q.semantics.intent = SourcePattern.v.semantics.intent
                        /\ q.ecosystem = call.target_ecosystem
                        /\ q.library # call.source_library}

\* C5: a 1.0 suggestion is returned iff the registered source pattern has a rule
\* keyed by the target ecosystem (at most one); the 0.8 suggestions are, one
\* each, exactly the registered patterns with the source pattern's intent, the
\* target ecosystem and another library; an unregistered source yields <<>>.
C5_SuggestionContent ==
    IsSuggestionCall =>
        LET direct == {i \in DOMAIN ret : ret[i].confidence = DirectConfidence}
            sem == {i \in DOMAIN ret : ret[i].confidence = SemanticConfidence}
        IN  /\ direct \cup sem = DOMAIN ret
            /\ Cardinality(direct) <= 1
            /\ (direct # {}) <=>
                  (/\ SourcePattern.some
                   /\ call.target_ecosystem \in DOMAIN SourcePattern.v.transformations)
            /\ ~SourcePattern.some => ret = <<>>
            /\ SourcePattern.some =>
                  /\ {<<ret[i].target_library, ret[i].target_pattern>> : i \in sem}
                        = {Key(q) : q \in EquivalentsOfCall}
                  /\ Cardinality(sem) = Cardinality(EquivalentsOfCall)

\* equivalents are suggested while a pattern of the source library with the same
\* intent and the target ecosystem is registered and left out
C5_Witness ==
    /\ IsSuggestionCall
    /\ call.source_library = "react"
    /\ call.target_ecosystem = "vue"
    /\ ReactVueCompat \in Registered
    /\ SvelteWritable \in Registered
    /\ Cardinality({i \in DOMAIN ret : ret[i].confidence = SemanticConfidence}) = 2
    /\ \E i \in DOMAIN ret : ret[i].confidence = DirectConfidence

\* C6: get_pattern(l, n) is the pattern of the most recent register_pattern call
\* with that library and name, None if there was none; a registration under one
\* key leaves every other key's answer as it was.
C6_LastWriteWins ==
    \A l \in Libraries, n \in PatternNames :
        get_pattern(patterns, l, n) = MapGet(lastWrite, <<l, n>>)

\* a registration has replaced another pattern under the same key
C6_Witness ==
    /\ call.op = "register_pattern"
    /\ call.prev.some
    /\ call.prev.v # call.pattern
    /\ get_pattern(patterns, call.pattern.library, call.pattern.name) = Some(call.pattern)
    /\ get_pattern(patterns, "react", "useEffect") = Some(ReactUseEffect)
    /\ get_pattern(patterns, "lodash", "useState") = None

(***************************************************************************)
(* serde_json.  A text is PlainText(s), the characters s that are not a    *)
(* JSON document of the shape asked for, or JsonText(v), the serialization *)
(* of the JSON value v.  serde_json::Value::String(text) is StrVal(text).  *)
(***************************************************************************)
PlainText(s) == [plain |-> s]
JsonText(v) == [json |-> v]
IsJson(text) == "json" \in DOMAIN text

JNull == [t |-> "null"]
JStr(s) == [t |-> "string", s |-> s]
JNum(n) == [t |-> "number", n |-> n]
JArr(a) == [t |-> "array", a |-> a]
JObj(o) == [t |-> "object", o |-> o]

StrVal(text) == [t |-> "String", s |-> text]
NumVal(n) == [t |-> "Number", n |-> n]

OptToJson(opt) == IF opt.some THEN JStr(opt.v) ELSE JNull

\* Serialize for LibraryUsage (derive, lib.rs:30)
UsageToJson(u) ==
    JObj([f \in {"pattern_name", "method_name", "parameters", "semantic_intent",
                 "source_location"} |->
            CASE f = "pattern_name" -> JStr(u.pattern_name)
              [] f = "method_name" -> JStr(u.method_name)
              [] f = "parameters" -> JObj([k \in DOMAIN u.parameters |-> JStr(u.parameters[k])])
              [] f = "semantic_intent" -> JStr(u.semantic_intent)
              [] OTHER -> JArr(<<JNum(u.source_location[1]), JNum(u.source_location[2])>>)])

\* Serialize for LibraryDependency (derive, lib.rs:20)
DependencyToJson(d) ==
    JObj([f \in {"name", "version", "ecosystem", "import_path", "usage_patterns"} |->
            CASE f = "name" -> JStr(d.name)
              [] f = "version" -> OptToJson(d.version)
              [] f = "ecosystem" -> JStr(d.ecosystem)
              [] f = "import_path" -> OptToJson(d.import_path)
              [] OTHER -> JArr([i \in DOMAIN d.usage_patterns |->
                                  UsageToJson(d.usage_patterns[i])])])

\* serde_json::to_string(dep)
to_string_dependency(d) == JsonText(DependencyToJson(d))

\* serde_json::to_string(&rule.imports): a JSON array of strings
to_string_imports(imports) == JsonText(JArr([i \in DOMAIN imports |-> JStr(imports[i])]))

HasStr(o, f) == f \in DOMAIN o /\ o[f].t = "string"
\* an Option<String> field: absent, null or a string
HasOptStr(o, f) == f \in DOMAIN o => o[f].t \in {"string", "null"}
OptFromJson(o, f) == IF f \in DOMAIN o /\ o[f].t = "string" THEN Some(o[f].s) ELSE None

\* the fields of the two structs in declaration order (lib.rs:21-27, 31-37)
UsageFields ==
    <<"pattern_name", "method_name", "parameters", "semantic_intent", "source_location">>
DependencyFields == <<"name", "version", "ecosystem", "import_path", "usage_patterns">>

\* The derived Deserialize of a struct visits a map (fields by name, unknown
\* names ignored) or a sequence (fields by position).  A sequence that is
\* shorter or longer than the field list is rejected.
IsStructForm(v, fields) ==
    \/ v.t = "object"
    \/ v.t = "array" /\ Len(v.a) = Len(fields)

\* the fields a document gives, by name
FieldsOf(v, fields) ==
    IF v.t = "array"
    THEN [f \in {fields[i] : i \in DOMAIN fields} |->
            v.a[CHOOSE i \in DOMAIN fields : fields[i] = f]]
    ELSE v.o

\* a struct written as the sequence of its fields in declaration order
SequenceForm(v, fields) == JArr([i \in DOMAIN fields |-> v.o[fields[i]]])

\* a usize: serde_json rejects a negative number
IsUsize(v) == v.t = "number" /\ v.n >= 0

\* Deserialize for LibraryUsage: every field is required
UsageDecodes(v) ==
    /\ IsStructForm(v, UsageFields)
    /\ LET o == FieldsOf(v, UsageFields)
       IN  /\ HasStr(o, "pattern_name")
           /\ HasStr(o, "method_name")
           /\ HasStr(o, "semantic_intent")
           /\ "parameters" \in DOMAIN o
           /\ o["parameters"].t = "object"
           /\ \A k \in DOMAIN o["parameters"].o : o["parameters"].o[k].t = "string"
           /\ "source_location" \in DOMAIN o
           /\ o["source_location"].t = "array"
           /\ Len(o["source_location"].a) = 2
           /\ \A i \in 1..2 : IsUsize(o["source_location"].a[i])

UsageFromJson(v) ==
    LET o == FieldsOf(v, UsageFields)
    IN  [pattern_name |-> o["pattern_name"].s,
         method_name |-> o["method_name"].s,
         parameters |-> [k \in DOMAIN o["parameters"].o |-> o["parameters"].o[k].s],
         semantic_intent |-> o["semantic_intent"].s,
         source_location |-> <<o["source_location"].a[1].n, o["source_location"].a[2].n>>]

\* Deserialize for LibraryDependency: name, ecosystem and usage_patterns are
\* required, the Option fields may be missing (in a map) or null
DependencyDecodes(v) ==
    /\ IsStructForm(v, DependencyFields)
    /\ LET o == FieldsOf(v, DependencyFields)
       IN  /\ HasStr(o, "name")
           /\ HasStr(o, "ecosystem")
           /\ HasOptStr(o, "version")
           /\ HasOptStr(o, "import_path")
           /\ "usage_patterns" \in DOMAIN o
           /\ o["usage_patterns"].t = "array"
           /\ \A i \in DOMAIN o["usage_patterns"].a : UsageDecodes(o["usage_patterns"].a[i])

DependencyFromJson(v) ==
    LET o == FieldsOf(v, DependencyFields)
    IN  [name |-> o["name"].s,
         version |-> OptFromJson(o, "version"),
         ecosystem |-> o["ecosystem"].s,
         import_path |-> OptFromJson(o, "import_path"),
         usage_patterns |-> [i \in DOMAIN o["usage_patterns"].a |->
                                UsageFromJson(o["usage_patterns"].a[i])]]

\* CoalesceError values
SerializationError == [kind |-> "SerializationError"]
TransformationError(msg) == [kind |-> "TransformationError", message |-> msg]
UnsupportedLanguage(lang) == [kind |-> "UnsupportedLanguage", language |-> lang]

\* serde_json::from_str::<LibraryDependency>(text), with `?` turning the
\* serde_json::Error into CoalesceError::SerializationError (#[from])
from_str_dependency(text) ==
    IF IsJson(text) /\ DependencyDecodes(text.json)
    THEN Ok(DependencyFromJson(text.json))
    ELSE Err(SerializationError)

(***************************************************************************)
(* serde_yaml and register_from_yaml (registry.rs).  A YAML text is        *)
(* YamlText(v), the text of the YAML value v, or PlainText(s), characters  *)
(* that are no YAML document.  YAML values are written with the JSON       *)
(* constructors above.  LibraryPattern fields that no operation reads      *)
(* (signature, parameters, side_effects, requirements, mutability,         *)
(* reactivity, parameter_mappings) are required of a document but not kept *)
(* in the decoded record.                                                  *)
(***************************************************************************)
YamlText(v) == [yaml |-> v]
IsYaml(text) == "yaml" \in DOMAIN text

JBool(b) == [t |-> "bool", b |-> b]

HasBool(o, f) == f \in DOMAIN o /\ o[f].t = "bool"
HasStrings(o, f) ==
    /\ f \in DOMAIN o
    /\ o[f].t = "array"
    /\ \A i \in DOMAIN o[f].a : o[f].a[i].t = "string"

\* the fields of the structs in declaration order (patterns.rs:6-48)
PatternFields ==
    <<"name", "library", "ecosystem", "signature", "semantics", "parameters",
      "transformations">>
SemanticsFields ==
    <<"intent", "category", "behavior", "side_effects", "requirements", "mutability",
      "reactivity">>
ParameterFields == <<"name", "param_type", "required", "default_value", "description">>
RuleFields ==
    <<"target_library", "target_pattern", "template", "imports", "setup_code",
      "cleanup_code", "parameter_mappings">>

\* Deserialize for TransformRule
RuleDecodes(v) ==
    /\ IsStructForm(v, RuleFields)
    /\ LET o == FieldsOf(v, RuleFields)
       IN  /\ HasStr(o, "target_library")
           /\ HasStr(o, "target_pattern")
           /\ HasStr(o, "template")
           /\ HasStrings(o, "imports")
           /\ HasOptStr(o, "setup_code")
           /\ HasOptStr(o, "cleanup_code")
           /\ "parameter_mappings" \in DOMAIN o
           /\ o["parameter_mappings"].t = "object"
           /\ \A k \in DOMAIN o["parameter_mappings"].o :
                 o["parameter_mappings"].o[k].t = "string"

RuleFromYaml(v) ==
    LET o == FieldsOf(v, RuleFields)
    IN  [target_library |-> o["target_library"].s,
         target_pattern |-> o["target_pattern"].s,
         template |-> o["template"].s,
         imports |-> [i \in DOMAIN o["imports"].a |-> o["imports"].a[i].s],
         setup_code |-> OptFromJson(o, "setup_code"),
         cleanup_code |-> OptFromJson(o, "cleanup_code")]

\* Deserialize for PatternSemantics
SemanticsDecodes(v) ==
    /\ IsStructForm(v, SemanticsFields)
    /\ LET o == FieldsOf(v, SemanticsFields)
       IN  /\ HasStr(o, "intent")
           /\ HasStr(o, "category")
           /\ HasStr(o, "behavior")
           /\ HasStrings(o, "side_effects")
           /\ HasStrings(o, "requirements")
           /\ HasBool(o, "mutability")
           /\ HasBool(o, "reactivity")

\* Deserialize for PatternParameter
ParameterDecodes(v) ==
    /\ IsStructForm(v, ParameterFields)
    /\ LET o == FieldsOf(v, ParameterFields)
       IN  /\ HasStr(o, "name")
           /\ HasStr(o, "param_type")
           /\ HasBool(o, "required")
           /\ HasOptStr(o, "default_value")
           /\ HasStr(o, "description")

\* Deserialize for LibraryPattern: every field is required
PatternDecodes(v) ==
    /\ IsStructForm(v, PatternFields)
    /\ LET o == FieldsOf(v, PatternFields)
       IN  /\ HasStr(o, "name")
           /\ HasStr(o, "library")
           /\ HasStr(o, "ecosystem")
           /\ HasStr(o, "signature")
           /\ "semantics" \in DOMAIN o
           /\ SemanticsDecodes(o["semantics"])
           /\ "parameters" \in DOMAIN o
           /\ o["parameters"].t = "array"
           /\ \A i \in DOMAIN o["parameters"].a : ParameterDecodes(o["parameters"].a[i])
           /\ "transformations" \in DOMAIN o
           /\ o["transformations"].t = "object"
           /\ \A k \in DOMAIN o["transformations"].o :
                 RuleDecodes(o["transformations"].o[k])

PatternFromYaml(v) ==
    LET o == FieldsOf(v, PatternFields)
        sem == FieldsOf(o["semantics"], SemanticsFields)
    IN  [name |-> o["name"].s,
         library |-> o["library"].s,
         ecosystem |-> o["ecosystem"].s,
         semantics |-> [intent |-> sem["intent"].s,
                        category |-> sem["category"].s,
                        behavior |-> sem["behavior"].s],
         transformations |-> [k \in DOMAIN o["transformations"].o |->
                                 RuleFromYaml(o["transformations"].o[k])]]

\* serde_yaml::from_str::<LibraryPattern>(yaml_config) with its map_err; the
\* serde_yaml text that follows the prefix of the message is not modelled
from_str_pattern(yaml_config) ==
    IF IsYaml(yaml_config) /\ PatternDecodes(yaml_config.yaml)
    THEN Ok(PatternFromYaml(yaml_config.yaml))
    ELSE Err(TransformationError("YAML parse error: "))

\* register_from_yaml with `?` alone on the serde_yaml result
register_from_yaml_unmapped(pats, yaml_config) ==
    IF from_str_pattern(yaml_config).ok
    THEN [patterns |-> register_pattern(pats, from_str_pattern(yaml_config).v),
          result |-> Ok(Unit)]
    ELSE [patterns |-> pats, result |-> Err(SerializationError)]

\* register_from_yaml: the patterns map after the call, and what it returns
register_from_yaml(pats, yaml_config) ==
    IF from_str_pattern(yaml_config).ok
    THEN [patterns |-> register_pattern(pats, from_str_pattern(yaml_config).v),
          result |-> Ok(Unit)]
    ELSE [patterns |-> pats, result |-> from_str_pattern(yaml_config)]

\* Serialize for TransformRule, PatternSemantics, LibraryPattern: the document
\* of a pattern, with empty values for the fields the record does not keep
RuleToYaml(r) ==
    JObj([f \in {"target_library", "target_pattern", "template", "imports", "setup_code",
                 "cleanup_code", "parameter_mappings"} |->
            CASE f = "target_library" -> JStr(r.target_library)
              [] f = "target_pattern" -> JStr(r.target_pattern)
              [] f = "template" -> JStr(r.template)
              [] f = "imports" -> JArr([i \in DOMAIN r.imports |-> JStr(r.imports[i])])
              [] f = "setup_code" -> OptToJson(r.setup_code)
              [] f = "cleanup_code" -> OptToJson(r.cleanup_code)
              [] OTHER -> JObj(EmptyMap)])

SemanticsToYaml(s) ==
    JObj([f \in {"intent", "category", "behavior", "side_effects", "requirements",
                 "mutability", "reactivity"} |->
            CASE f = "intent" -> JStr(s.intent)
              [] f = "category" -> JStr(s.category)
              [] f = "behavior" -> JStr(s.behavior)
              [] f \in {"side_effects", "requirements"} -> JArr(<<>>)
              [] OTHER -> JBool(FALSE)])

PatternToYaml(p) ==
    JObj([f \in {"name", "library", "ecosystem", "signature", "semantics", "parameters",
                 "transformations"} |->
            CASE f = "name" -> JStr(p.name)
              [] f = "library" -> JStr(p.library)
              [] f = "ecosystem" -> JStr(p.ecosystem)
              [] f = "signature" -> JStr("")
              [] f = "semantics" -> SemanticsToYaml(p.semantics)
              [] f = "parameters" -> JArr(<<>>)
              [] OTHER -> JObj([k \in DOMAIN p.transformations |->
                                   RuleToYaml(p.transformations[k])])])

\* the mapping o without the key f
Without(v, f) == JObj([k \in (DOMAIN v.o) \ {f} |-> v.o[k]])

\* the mapping o with the value of f replaced
With(v, f, x) == JObj([k \in (DOMAIN v.o) \cup {f} |-> IF k = f THEN x ELSE v.o[k]])

YamlPool == {VueRef, ReactUseStateSolid, SvelteWritable}

\* the document of a pattern with the pattern, its semantics and its rules
\* each written as a sequence
SequencePatternToYaml(p) ==
    LET d == PatternToYaml(p)
        rules == d.o["transformations"].o
        inner == [d EXCEPT !.o["semantics"] = SequenceForm(@, SemanticsFields),
                           !.o["transformations"] =
                               JObj([k \in DOMAIN rules |->
                                       SequenceForm(rules[k], RuleFields)])]
    IN  SequenceForm(inner, PatternFields)

\* the documents that spell the pattern p
DocumentsOf(p) == {YamlText(PatternToYaml(p)), YamlText(SequencePatternToYaml(p))}

WellFormedDocuments == UNION {DocumentsOf(p) : p \in YamlPool}

\* a sequence without its last element
ShortSequence(v) == JArr(SubSeq(v.a, 1, Len(v.a) - 1))

MalformedDocuments ==
    {PlainText("name: [useState"),
     YamlText(ShortSequence(SequencePatternToYaml(SvelteWritable))),
     YamlText(JStr("useState")),
     YamlText(Without(PatternToYaml(ReactUseStateSolid), "signature")),
     YamlText(Without(PatternToYaml(VueRef), "transformations")),
     YamlText(With(PatternToYaml(VueRef), "semantics",
                   Without(SemanticsToYaml(VueRef.semantics), "reactivity"))),
     YamlText(With(PatternToYaml(ReactUseStateSolid), "name", JArr(<<>>)))}

RegisterFromYaml ==
    /\ Idle
    /\ \E yaml_config \in WellFormedDocuments \cup MalformedDocuments :
        /\ patterns' = register_from_yaml(patterns, yaml_config).patterns
        /\ ret' = register_from_yaml(patterns, yaml_config).result
        /\ lastWrite' = IF from_str_pattern(yaml_config).ok
                        THEN NoteWrites(lastWrite, <<from_str_pattern(yaml_config).v>>)
                        ELSE lastWrite
        /\ call' = [op |-> "register_from_yaml", yaml_config |-> yaml_config,
                    before |-> [patterns |-> patterns, ecosystems |-> ecosystems]]
        /\ UNCHANGED <<ecosystems, parsed, threads>>

NextYaml == RegisterFromYaml \/ RegisterDefaults \/ Return

SpecYaml == InitRegistry /\ [][NextYaml]_vars

IsYamlCall == call.op = "register_from_yaml"

\* the document of the call has the LibraryPattern shape
WellFormed(yaml_config) == IsYaml(yaml_config) /\ PatternDecodes(yaml_config.yaml)

YamlLibraries == Libraries \cup {"lodash"}
YamlNames == PatternNames \cup {"debounce"}

\* C20: register_from_yaml of a document that does not have the LibraryPattern
\* shape fails with a TransformationError that says it is a YAML parse error
\* and leaves every get_pattern, find_equivalent_patterns and
\* get_target_ecosystems answer as before; of a well-formed document it
\* returns Ok, get_pattern returns that pattern under its (library, name) and
\* every other key answers as before.
C20_RegisterFromYaml ==
    IsYamlCall
    => /\ ~WellFormed(call.yaml_config)
          => /\ ~ret.ok
             /\ ret.err.kind = "TransformationError"
             /\ SubSeq(ret.err.message, 1, 16) = "YAML parse error"
             /\ \A l \in YamlLibraries, n \in YamlNames :
                   get_pattern(patterns, l, n) = get_pattern(call.before.patterns, l, n)
             /\ \A i \in Intents :
                   find_equivalent_patterns(patterns, i)
                      = find_equivalent_patterns(call.before.patterns, i)
             /\ \A l \in YamlLibraries :
                   get_target_ecosystems(ecosystems, l)
                      = get_target_ecosystems(call.before.ecosystems, l)
       /\ WellFormed(call.yaml_config)
          => /\ ret = Ok(Unit)
             /\ \E p \in YamlPool :
                   /\ call.yaml_config \in DocumentsOf(p)
                   /\ get_pattern(patterns, p.library, p.name) = Some(p)
                   /\ \A l \in YamlLibraries, n \in YamlNames :
                         <<l, n>> # <<p.library, p.name>>
                         => get_pattern(patterns, l, n)
                               = get_pattern(call.before.patterns, l, n)

\* a document without the required field signature, offered to a registry that
\* already holds react/useState, and rejected
C20_Witness ==
    /\ IsYamlCall
    /\ call.yaml_config = YamlText(Without(PatternToYaml(ReactUseStateSolid), "signature"))
    /\ get_pattern(call.before.patterns, "react", "useState") = Some(ReactUseState)
    /\ get_pattern(patterns, "react", "useState") = Some(ReactUseState)
    /\ ~ret.ok

(***************************************************************************)
(* UIRNode (types.rs) and LibraryTransformer (transformer.rs)              *)
(***************************************************************************)
UIRNode(id, node_type, name, children, annotations) ==
    [id |-> id, node_type |-> node_type, name |-> name, children |-> children,
     metadata |-> [source_language |-> "JavaScript", annotations |-> annotations],
     source_location |-> None]

Annotations(node) == node.metadata.annotations

\* an insert that drops the annotations the node had
InsertAnnotation_replacing(node, key, value) ==
    [node EXCEPT !.metadata.annotations = MapPut(EmptyMap, key, value)]

\* node.metadata.annotations.insert(key, value)
InsertAnnotation(node, key, value) ==
    [node EXCEPT !.metadata.annotations = MapPut(@, key, value)]

\* str::replace: every non-overlapping occurrence of `from`, left to right
RECURSIVE Replace(_, _, _)
Replace(s, from, to) ==
    IF Len(s) < Len(from) THEN s
    ELSE IF SubSeq(s, 1, Len(from)) = from
         THEN to \o Replace(SubSeq(s, Len(from) + 1, Len(s)), from, to)
         ELSE SubSeq(s, 1, 1) \o Replace(SubSeq(s, 2, Len(s)), from, to)

\* format!("{{{{{}}}}}", param_name)
Placeholder(param_name) == "{{" \o param_name \o "}}"

\* the replacement loop of apply_transform_rule, visiting the keys in `order`
RECURSIVE render_in_order(_, _, _)
render_in_order(code, parameters, order) ==
    IF order = <<>> THEN code
    ELSE render_in_order(Replace(code, Placeholder(Head(order)), parameters[Head(order)]),
                         parameters, Tail(order))

\* every text the loop can produce: the HashMap is visited in any order
render_template(template, parameters) ==
    {render_in_order(template, parameters, order) : order \in Perms(DOMAIN parameters)}

\* a rule application that writes setup_code whether or not the rule has any
apply_transform_rule_always_setup(node, pattern, rule, usage) ==
    { LET n1 == InsertAnnotation(node, "transformed_from",
                    StrVal(PlainText(pattern.library \o ":" \o pattern.name)))
          n2 == InsertAnnotation(n1, "transformed_to",
                    StrVal(PlainText(rule.target_library \o ":" \o rule.target_pattern)))
          n3 == InsertAnnotation(n2, "generated_code", StrVal(PlainText(transformed_code)))
          n4 == IF rule.imports # <<>>
                THEN InsertAnnotation(n3, "required_imports",
                                      StrVal(to_string_imports(rule.imports)))
                ELSE n3
          n5 == InsertAnnotation(n4, "setup_code",
                    StrVal(PlainText(IF rule.setup_code.some THEN rule.setup_code.v ELSE "")))
      IN  IF rule.cleanup_code.some
          THEN InsertAnnotation(n5, "cleanup_code", StrVal(PlainText(rule.cleanup_code.v)))
          ELSE n5
      : transformed_code \in render_template(rule.template, usage.parameters) }

apply_transform_rule(node, pattern, rule, usage) ==
    { LET n1 == InsertAnnotation(node, "transformed_from",
                    StrVal(PlainText(pattern.library \o ":" \o pattern.name)))
          n2 == InsertAnnotation(n1, "transformed_to",
                    StrVal(PlainText(rule.target_library \o ":" \o rule.target_pattern)))
          n3 == InsertAnnotation(n2, "generated_code", StrVal(PlainText(transformed_code)))
          n4 == IF rule.imports # <<>>
                THEN InsertAnnotation(n3, "required_imports",
                                      StrVal(to_string_imports(rule.imports)))
                ELSE n3
          n5 == IF rule.setup_code.some
                THEN InsertAnnotation(n4, "setup_code", StrVal(PlainText(rule.setup_code.v)))
                ELSE n4
      IN  IF rule.cleanup_code.some
          THEN InsertAnnotation(n5, "cleanup_code", StrVal(PlainText(rule.cleanup_code.v)))
          ELSE n5
      : transformed_code \in render_template(rule.template, usage.parameters) }

create_fallback_implementation(node, pattern, target_lang) ==
    LET fallback_comment ==
            "// TODO: Implement equivalent of " \o pattern.library \o ":" \o pattern.name
            \o "\n// Original behavior: " \o pattern.semantics.behavior
    IN  InsertAnnotation(
            InsertAnnotation(node, "fallback_implementation",
                             StrVal(PlainText(fallback_comment))),
            "requires_manual_implementation", StrVal(PlainText("true")))

\* a default that names a framework for JavaScript
get_default_ecosystem_framework(language) ==
    CASE language = "JavaScript" -> "vue"
      [] language \in {"Rust", "Cpp"} -> "std"
      [] language \in {"CSharp", "FSharp", "VisualBasic"} -> "dotnet"
      [] OTHER -> "stdlib"

get_default_ecosystem(language) ==
    CASE language = "JavaScript" -> "vanilla"
      [] language = "Python" -> "stdlib"
      [] language = "Rust" -> "std"
      [] language = "Go" -> "stdlib"
      [] language = "C" -> "stdlib"
      [] language = "Cpp" -> "std"
      [] language = "CSharp" -> "dotnet"
      [] language = "FSharp" -> "dotnet"
      [] language = "VisualBasic" -> "dotnet"
      [] OTHER -> "stdlib"

\* one turn of the loop over library_dep.usage_patterns, on one node
transform_usage(pats, node, library_name, usage, target_lang, target_eco) ==
    LET found == get_pattern(pats, library_name, usage.pattern_name)
    IN  IF ~found.some THEN {node}
        ELSE IF target_eco \in DOMAIN found.v.transformations
             THEN apply_transform_rule(node, found.v,
                                       found.v.transformations[target_eco], usage)
             ELSE {create_fallback_implementation(node, found.v, target_lang)}

\* a loop that takes the usages from the last to the first
RECURSIVE transform_usages_reversed(_, _, _, _, _, _)
transform_usages_reversed(pats, nodes, library_name, usages, target_lang, target_eco) ==
    IF usages = <<>> THEN nodes
    ELSE transform_usages_reversed(pats,
            UNION {transform_usage(pats, n, library_name, usages[Len(usages)],
                                   target_lang, target_eco) : n \in nodes},
            library_name, SubSeq(usages, 1, Len(usages) - 1), target_lang, target_eco)

RECURSIVE transform_usages(_, _, _, _, _, _)
transform_usages(pats, nodes, library_name, usages, target_lang, target_eco) ==
    IF usages = <<>> THEN nodes
    ELSE transform_usages(pats,
            UNION {transform_usage(pats, n, library_name, Head(usages),
                                   target_lang, target_eco) : n \in nodes},
            library_name, Tail(usages), target_lang, target_eco)

\* transform_library_node: every node the call can leave behind (it returns Ok)
transform_library_node(pats, node, library_dep, target_lang, target_ecosystem) ==
    LET default_ecosystem == get_default_ecosystem(target_lang)
        target_eco == IF target_ecosystem.some THEN target_ecosystem.v
                      ELSE default_ecosystem
    IN  transform_usages(pats, {node}, library_dep.name, library_dep.usage_patterns,
                         target_lang, target_eco)

RECURSIVE transform(_, _, _, _)
RECURSIVE transform_children(_, _, _, _, _)

\* a loop that keeps a child as it is when its transformation fails
RECURSIVE transform_children_keep_failed(_, _, _, _, _)
transform_children_keep_failed(pats, node, i, target_lang, target_ecosystem) ==
    IF i > Len(node.children) THEN {Ok(node)}
    ELSE UNION { transform_children_keep_failed(pats,
                     IF c.ok THEN [node EXCEPT !.children[i] = c.v] ELSE node, i + 1,
                     target_lang, target_ecosystem)
                 : c \in transform(pats, node.children[i], target_lang, target_ecosystem) }

\* the loop over transformed_node.children from child i on; the first failing
\* child ends the call with its error
transform_children(pats, node, i, target_lang, target_ecosystem) ==
    IF i > Len(node.children) THEN {Ok(node)}
    ELSE UNION { IF c.ok
                 THEN transform_children(pats, [node EXCEPT !.children[i] = c.v], i + 1,
                                         target_lang, target_ecosystem)
                 ELSE {c}
                 : c \in transform(pats, node.children[i], target_lang, target_ecosystem) }

\* transform: every Result the call can return
transform(pats, node, target_lang, target_ecosystem) ==
    LET ann == Annotations(node)
        own == IF /\ "library_dependency" \in DOMAIN ann
                  /\ ann["library_dependency"].t = "String"
               THEN LET library_dep == from_str_dependency(ann["library_dependency"].s)
                    IN  IF library_dep.ok
                        THEN {Ok(n) : n \in transform_library_node(pats, node, library_dep.v,
                                                    target_lang, target_ecosystem)}
                        ELSE {Err(library_dep.err)}
               ELSE {Ok(node)}
    IN  UNION { IF r.ok
                THEN transform_children(pats, r.v, 1, target_lang, target_ecosystem)
                ELSE {r}
                : r \in own }

(***************************************************************************)
(* Inputs of the transformer runs                                          *)
(***************************************************************************)
MaxUsages == 2      \* usages listed in one dependency
MaxChildren == 1    \* children of the root of an input tree

Usage(pn, mn, params, intent, loc) ==
    [pattern_name |-> pn, method_name |-> mn, parameters |-> params,
     semantic_intent |-> intent, source_location |-> loc]

Params2(k1, v1, k2, v2) == [k \in {k1, k2} |-> IF k = k1 THEN v1 ELSE v2]
Params3(k1, v1, k2, v2, k3, v3) ==
    [k \in {k1, k2, k3} |-> IF k = k1 THEN v1 ELSE IF k = k2 THEN v2 ELSE v3]

UseStateUsage ==
    Usage("useState", "const [count, setCount] = useState(0)",
          Params3("state", "count", "setter", "setCount", "initial", "0"),
          "reactive_state_management", <<0, 37>>)

UseEffectUsage ==
    Usage("useEffect", "useEffect(fetchData, [])",
          Params2("callback", "fetchData", "deps", "[]"),
          "side_effect_lifecycle", <<38, 62>>)

\* the callback text is itself the placeholder of the other parameter
UseEffectNestedUsage ==
    Usage("useEffect", "useEffect({{deps}}, [])",
          Params2("callback", "{{deps}}", "deps", "[]"),
          "side_effect_lifecycle", <<0, 23>>)

\* what the detector reports for a C socket() call: pattern name "socket"
SocketUsage ==
    Usage("socket", "sock = socket(AF_INET, SOCK_STREAM, 0)",
          Params3("var", "sock", "family", "AF_INET", "type", "SOCK_STREAM"),
          "tcp_socket_creation", <<0, 38>>)

TcpSocketUsage ==
    Usage("tcp_socket", "socket(AF_INET, SOCK_STREAM, 0)",
          Params2("address", "localhost", "port", "80"),
          "tcp_socket_creation", <<0, 31>>)

UsagesOf(library) ==
    IF library = "react" THEN {UseStateUsage, UseEffectUsage, UseEffectNestedUsage}
    ELSE {SocketUsage, TcpSocketUsage}

SeqsUpTo(S, n) == UNION {[1..k -> S] : k \in 0..n}

Dependency(name, ecosystem, usages) ==
    [name |-> name, version |-> None, ecosystem |-> ecosystem, import_path |-> None,
     usage_patterns |-> usages]

DependencyPool ==
    {Dependency("react", "javascript", us) : us \in SeqsUpTo(UsagesOf("react"), MaxUsages)}
    \cup {Dependency("socket", "c", us) : us \in SeqsUpTo(UsagesOf("socket"), MaxUsages)}

\* a document without the required field usage_patterns
TruncatedDocument ==
    JsonText(JObj([f \in {"name", "ecosystem"} |->
                     IF f = "name" THEN JStr("react") ELSE JStr("javascript")]))

\* react with one useState usage, dependency and usage both in sequence form
SequenceDocument ==
    LET d == DependencyToJson(Dependency("react", "javascript", <<>>))
        u == SequenceForm(UsageToJson(UseStateUsage), UsageFields)
    IN  JsonText(SequenceForm([d EXCEPT !.o["usage_patterns"] = JArr(<<u>>)],
                              DependencyFields))

\* a usage whose source_location starts at -1
NegativeLocationDocument ==
    LET u == UsageToJson(UseStateUsage)
        bad == [u EXCEPT !.o["source_location"] = JArr(<<JNum(-1), JNum(37)>>)]
        d == DependencyToJson(Dependency("react", "javascript", <<>>))
    IN  JsonText([d EXCEPT !.o["usage_patterns"] = JArr(<<bad>>)])

\* what an input node may carry under library_dependency
MalformedValues ==
    {StrVal(PlainText("{not json")), StrVal(TruncatedDocument),
     StrVal(NegativeLocationDocument)}

DependencyValues ==
    {StrVal(to_string_dependency(d)) : d \in DependencyPool}
    \cup {StrVal(SequenceDocument)}
    \cup MalformedValues \cup {NumVal(1)}

BaseAnnotations(text) == [k \in {"original_text"} |-> StrVal(PlainText(text))]

Annotated(id, node_type, text, children, value) ==
    UIRNode(id, node_type, None, children,
            MapPut(BaseAnnotations(text), "library_dependency", value))

ChildPool ==
    { UIRNode("identifier_1_0_x", "Expression(Variable)", Some("x"), <<>>,
              BaseAnnotations("x")),
      Annotated("call_expression_1_0_useState", "Expression(FunctionCall)", "useState(0)",
                <<>>, StrVal(to_string_dependency(
                          Dependency("react", "javascript", <<UseStateUsage>>)))),
      Annotated("call_expression_2_0_socket", "Expression(FunctionCall)", "socket()",
                <<>>, StrVal(to_string_dependency(
                          Dependency("socket", "c", <<SocketUsage>>)))),
      Annotated("call_expression_3_0_bad", "Expression(FunctionCall)", "bad()",
                <<>>, StrVal(PlainText("{not json"))),
      \* a block whose only statement carries the undecodable annotation
      UIRNode("statement_block_4_0_", "Statement(Block)", None,
              << Annotated("call_expression_4_2_bad", "Expression(FunctionCall)", "bad()",
                           <<>>, StrVal(PlainText("{not json"))) >>,
              BaseAnnotations("{ bad() }")),
      \* a block of two statements: the first uses react/useEffect, the second
      \* react/useState
      UIRNode("statement_block_5_0_", "Statement(Block)", None,
              << Annotated("call_expression_5_2_useEffect", "Expression(FunctionCall)",
                           "useEffect(fetchData, [])", <<>>,
                           StrVal(to_string_dependency(
                               Dependency("react", "javascript", <<UseEffectUsage>>)))),
                 Annotated("call_expression_5_28_useState", "Expression(FunctionCall)",
                           "useState(0)", <<>>,
                           StrVal(to_string_dependency(
                               Dependency("react", "javascript", <<UseStateUsage>>)))) >>,
              BaseAnnotations("{ useEffect(fetchData, []); useState(0) }")) }

NodePool ==
    {UIRNode("program_0_0_", "Module", Some("javascript_program"), cs,
             BaseAnnotations("program")) : cs \in SeqsUpTo(ChildPool, MaxChildren)}
    \cup {Annotated("program_0_0_", "Module", "program", cs, v) :
            cs \in SeqsUpTo(ChildPool, MaxChildren), v \in DependencyValues}

\* every variant of Language (types.rs:93-108)
TargetLanguages ==
    {"JavaScript", "TypeScript", "Python", "Rust", "Go", "Java", "CSharp", "FSharp",
     "VisualBasic", "Cobol", "Fortran", "C", "Cpp"}
TargetEcosystems == {None, Some("vue"), Some("rust"), Some("solid")}

\* the targets of a call: every language with no ecosystem given, where the
\* language picks the default, and every ecosystem given explicitly
TargetPairs ==
    {<<lang, None>> : lang \in TargetLanguages}
    \cup {<<"JavaScript", eco>> : eco \in TargetEcosystems}
    \cup {<<"Rust", Some("rust")>>}

\* patterns a caller adds to the registry before transforming
TransformPool == {ReactUseStateSolid, ReactUseEffectSolid}

(***************************************************************************)
(* The transformer as a state machine: LibraryAbstractionLayer::new()      *)
(* builds the default registry; then transform runs on annotated trees.    *)
(***************************************************************************)
InitTransform ==
    /\ patterns = register_defaults(EmptyMap)
    /\ ecosystems = register_ecosystem_mappings(EmptyMap)
    /\ lastWrite = NoteWrites(EmptyMap, DefaultPatterns)
    /\ parsed = EmptyMap
    /\ threads = <<>>
    /\ call = IdleCall
    /\ ret = Ok(Unit)

RegisterCustomPattern ==
    /\ Idle
    /\ \E p \in TransformPool :
        /\ patterns' = register_pattern(patterns, p)
        /\ lastWrite' = NoteWrites(lastWrite, <<p>>)
        /\ call' = [op |-> "register_pattern", pattern |-> p,
                    prev |-> get_pattern(patterns, p.library, p.name)]
        /\ ret' = Ok(Unit)
        /\ UNCHANGED <<ecosystems, parsed, threads>>

Transform ==
    /\ Idle
    /\ \E node \in NodePool, target \in TargetPairs :
        /\ call' = [op |-> "transform", node |-> node, target_lang |-> target[1],
                    target_ecosystem |-> target[2]]
        /\ ret' \in transform(patterns, node, target[1], target[2])
        /\ UNCHANGED <<patterns, ecosystems, lastWrite, parsed, threads>>

\* the caller hands the tree it got back to transform once more, with the
\* same targets
TransformAgain ==
    /\ call.op = "transform"
    /\ ret.ok
    /\ call' = [op |-> "transform_again", node |-> ret.v,
                target_lang |-> call.target_lang,
                target_ecosystem |-> call.target_ecosystem]
    /\ ret' \in transform(patterns, ret.v, call.target_lang, call.target_ecosystem)
    /\ UNCHANGED <<patterns, ecosystems, lastWrite, parsed, threads>>

NextTransform == RegisterCustomPattern \/ Transform \/ TransformAgain \/ Return

SpecTransform == InitTransform /\ [][NextTransform]_vars

(***************************************************************************)
(* LibraryAbstractionLayer::enhance_uir (lib.rs)                           *)
(***************************************************************************)
\* the loop over dep.usage_patterns of add_library_metadata, from usage i on
RECURSIVE mark_usages(_, _, _)
mark_usages(node, usages, i) ==
    IF i > Len(usages) THEN node
    ELSE IF node.name = Some(usages[i].method_name)
    THEN mark_usages(
             InsertAnnotation(
                 InsertAnnotation(node, "library_pattern",
                                  StrVal(PlainText(usages[i].pattern_name))),
                 "semantic_intent", StrVal(PlainText(usages[i].semantic_intent))),
             usages, i + 1)
    ELSE mark_usages(node, usages, i + 1)

\* a variant that leaves a library_dependency annotation already on the node
add_library_metadata_keep_first(node, dep) ==
    mark_usages(IF "library_dependency" \in DOMAIN Annotations(node) THEN node
                ELSE InsertAnnotation(node, "library_dependency",
                                      StrVal(to_string_dependency(dep))),
                dep.usage_patterns, 1)

\* add_library_metadata: the node after the call (it returns Ok)
add_library_metadata(node, dep) ==
    mark_usages(InsertAnnotation(node, "library_dependency",
                                 StrVal(to_string_dependency(dep))),
                dep.usage_patterns, 1)

\* enhance_uir: the node after the call, which returns Ok(())
RECURSIVE enhance_uir(_, _)
enhance_uir(node, deps) ==
    IF deps = <<>> THEN node
    ELSE enhance_uir(add_library_metadata(node, Head(deps)), Tail(deps))

MaxDeps == 2    \* dependencies handed to one enhance_uir call

EnhanceDependencies ==
    { Dependency("react", "javascript", <<UseStateUsage>>),
      Dependency("react", "javascript", <<UseEffectUsage, UseStateUsage>>),
      Dependency("socket", "c", <<SocketUsage>>),
      [Dependency("django", "python", <<>>)
          EXCEPT !.version = Some("4.2"), !.import_path = Some("django.db")] }

EnhanceNodes ==
    { UIRNode("program_0_0_", "Module", Some("javascript_program"), cs,
              BaseAnnotations("program")) : cs \in SeqsUpTo(ChildPool, 1) }
    \cup { UIRNode("call_expression_1_0_useEffect", "Expression(FunctionCall)",
                   Some("useEffect(fetchData, [])"), <<>>,
                   BaseAnnotations("useEffect(fetchData, [])")) }

InitEnhance ==
    /\ patterns = register_defaults(EmptyMap)
    /\ ecosystems = register_ecosystem_mappings(EmptyMap)
    /\ lastWrite = NoteWrites(EmptyMap, DefaultPatterns)
    /\ parsed = EmptyMap
    /\ threads = <<>>
    /\ call = IdleCall
    /\ ret = Ok(Unit)

\* enhance_uir(&mut node, deps): ret.v is the node the caller holds afterwards
EnhanceUir ==
    /\ Idle
    /\ \E node \in EnhanceNodes, deps \in SeqsUpTo(EnhanceDependencies, MaxDeps) :
        /\ call' = [op |-> "enhance_uir", node |-> node, deps |-> deps]
        /\ ret' = Ok(enhance_uir(node, deps))
    /\ UNCHANGED <<patterns, ecosystems, lastWrite, parsed, threads>>

\* the caller transforms the node it enhanced
TransformEnhanced ==
    /\ call.op = "enhance_uir"
    /\ \E lang \in {"JavaScript"}, eco \in {None, Some("vue")} :
        /\ call' = [op |-> "transform", node |-> ret.v, target_lang |-> lang,
                    target_ecosystem |-> eco]
        /\ ret' \in transform(patterns, ret.v, lang, eco)
    /\ UNCHANGED <<patterns, ecosystems, lastWrite, parsed, threads>>

NextEnhance == EnhanceUir \/ TransformEnhanced \/ Return

SpecEnhance == InitEnhance /\ [][NextEnhance]_vars

(***************************************************************************)
(* One LibraryAbstractionLayer shared by several threads.  Every method    *)
(* of the layer takes &self; a thread that transforms reads the registry   *)
(* once per usage of the root and once per child, and other threads run    *)
(* between these reads.                                                    *)
(***************************************************************************)
\* LibraryAbstractionLayer::new(): the registry field of the layer it returns
LibraryAbstractionLayer_new ==
    Ok([patterns |-> register_defaults(EmptyMap),
        ecosystems |-> register_ecosystem_mappings(EmptyMap)])

NumThreads == 2    \* threads sharing the layer

SharedNodes ==
    { Annotated("program_0_0_", "Module", "program",
                << Annotated("call_expression_1_0_useState", "Expression(FunctionCall)",
                             "useState(0)", <<>>,
                             StrVal(to_string_dependency(
                                 Dependency("react", "javascript", <<UseStateUsage>>)))) >>,
                StrVal(to_string_dependency(
                    Dependency("react", "javascript", <<UseStateUsage, UseEffectUsage>>)))),
      Annotated("program_0_0_", "Module", "program", <<>>,
                StrVal(to_string_dependency(
                    Dependency("socket", "c", <<TcpSocketUsage, SocketUsage>>)))),
      UIRNode("program_0_0_", "Module", Some("javascript_program"),
              << Annotated("call_expression_3_0_bad", "Expression(FunctionCall)", "bad()",
                           <<>>, StrVal(PlainText("{not json"))) >>,
              BaseAnnotations("program")) }

\* the calls a thread makes on the layer
SharedJobs ==
    { [op |-> "transform", node |-> n, target_lang |-> l, target_ecosystem |-> e] :
        n \in SharedNodes, l \in {"JavaScript", "Rust"}, e \in {None, Some("vue")} }
    \cup { [op |-> "get_pattern", library |-> "react", pattern_name |-> n] :
             n \in {"useState", "socket"} }
    \cup { [op |-> "find_equivalent_patterns", semantic_intent |-> "tcp_socket_creation"],
           [op |-> "get_transformation_suggestions", source_library |-> "react",
            pattern_name |-> "useState", target_ecosystem |-> "vue"],
           [op |-> "get_target_ecosystems", source_library |-> "django"] }

\* every result the call returns when nothing else runs
RunAlone(pats, ecos, job) ==
    CASE job.op = "transform"
            -> transform(pats, job.node, job.target_lang, job.target_ecosystem)
      [] job.op = "get_pattern"
            -> {get_pattern(pats, job.library, job.pattern_name)}
      [] job.op = "find_equivalent_patterns"
            -> find_equivalent_patterns(pats, job.semantic_intent)
      [] job.op = "get_transformation_suggestions"
            -> get_transformation_suggestions(pats, job.source_library, job.pattern_name,
                                              job.target_ecosystem)
      [] OTHER -> {get_target_ecosystems(ecos, job.source_library)}

IdleThread == [pc |-> "idle"]
Done(job, result) == [pc |-> "done", job |-> job, result |-> result]

\* where a transforming thread stands after a step: past the last usage it
\* turns to the children, past the last child it returns the node
Position(job, pc, acc, dep, i) ==
    IF pc = "usages" /\ i <= Len(dep.usage_patterns)
    THEN [pc |-> "usages", job |-> job, acc |-> acc, dep |-> dep, i |-> i]
    ELSE IF pc = "usages" /\ acc.children # <<>>
    THEN [pc |-> "children", job |-> job, acc |-> acc, dep |-> dep, i |-> 1]
    ELSE IF pc = "children" /\ i <= Len(acc.children)
    THEN [pc |-> "children", job |-> job, acc |-> acc, dep |-> dep, i |-> i]
    ELSE Done(job, Ok(acc))

NoDependency == Dependency("", "", <<>>)

\* transform up to its first read of the registry: the clone of the node and
\* the decoding of its annotation
begin_transform(job) ==
    LET ann == Annotations(job.node)
    IN  IF "library_dependency" \in DOMAIN ann /\ ann["library_dependency"].t = "String"
        THEN LET library_dep == from_str_dependency(ann["library_dependency"].s)
             IN  IF library_dep.ok
                 THEN Position(job, "usages", job.node, library_dep.v, 1)
                 ELSE Done(job, Err(library_dep.err))
        ELSE Position(job, "usages", job.node, NoDependency, 1)

InitShared ==
    /\ patterns = LibraryAbstractionLayer_new.v.patterns
    /\ ecosystems = LibraryAbstractionLayer_new.v.ecosystems
    /\ lastWrite = NoteWrites(EmptyMap, DefaultPatterns)
    /\ parsed = EmptyMap
    /\ threads = [t \in 1..NumThreads |-> IdleThread]
    /\ call = IdleCall
    /\ ret = Ok(Unit)

\* a thread calls transform on the layer
BeginTransform(t) ==
    /\ threads[t].pc = "idle"
    /\ \E job \in SharedJobs :
          /\ job.op = "transform"
          /\ threads' = [threads EXCEPT ![t] = begin_transform(job)]
    /\ UNCHANGED <<patterns, ecosystems, lastWrite, parsed, call, ret>>

\* one turn of the loop of transform_library_node
UsageStep(t) ==
    /\ threads[t].pc = "usages"
    /\ LET th == threads[t]
           default_ecosystem == get_default_ecosystem(th.job.target_lang)
           target_eco == IF th.job.target_ecosystem.some THEN th.job.target_ecosystem.v
                         ELSE default_ecosystem
       IN  \E acc \in transform_usage(patterns, th.acc, th.dep.name,
                                      th.dep.usage_patterns[th.i],
                                      th.job.target_lang, target_eco) :
              threads' = [threads EXCEPT
                             ![t] = Position(th.job, "usages", acc, th.dep, th.i + 1)]
    /\ UNCHANGED <<patterns, ecosystems, lastWrite, parsed, call, ret>>

\* one turn of the loop over the children
ChildStep(t) ==
    /\ threads[t].pc = "children"
    /\ LET th == threads[t]
       IN  \E c \in transform(patterns, th.acc.children[th.i], th.job.target_lang,
                              th.job.target_ecosystem) :
              threads' = [threads EXCEPT
                             ![t] = IF c.ok
                                    THEN Position(th.job, "children",
                                                  [th.acc EXCEPT !.children[th.i] = c.v],
                                                  th.dep, th.i + 1)
                                    ELSE Done(th.job, c)]
    /\ UNCHANGED <<patterns, ecosystems, lastWrite, parsed, call, ret>>

\* a thread queries the registry
Query(t) ==
    /\ threads[t].pc = "idle"
    /\ \E job \in SharedJobs :
          /\ job.op # "transform"
          /\ \E result \in RunAlone(patterns, ecosystems, job) :
                threads' = [threads EXCEPT ![t] = Done(job, result)]
    /\ UNCHANGED <<patterns, ecosystems, lastWrite, parsed, call, ret>>

\* the thread takes its result
Finish(t) ==
    /\ threads[t].pc = "done"
    /\ threads' = [threads EXCEPT ![t] = IdleThread]
    /\ UNCHANGED <<patterns, ecosystems, lastWrite, parsed, call, ret>>

NextShared ==
    \E t \in 1..NumThreads :
        BeginTransform(t) \/ UsageStep(t) \/ ChildStep(t) \/ Query(t) \/ Finish(t)

SpecShared == InitShared /\ [][NextShared]_vars

(***************************************************************************)
(* Claims about the transformer, checked under SpecTransform               *)
(***************************************************************************)
IsTransformCall == call.op = "transform"

\* the ecosystem the call resolves to
ResolvedEcosystem ==
    IF call.target_ecosystem.some THEN call.target_ecosystem.v
    ELSE get_default_ecosystem(call.target_lang)

HasDependencyString(node) ==
    /\ "library_dependency" \in DOMAIN Annotations(node)
    /\ Annotations(node)["library_dependency"].t = "String"

DecodedDependency(node) == from_str_dependency(Annotations(node)["library_dependency"].s)

\* every library_dependency string in the tree decodes
RECURSIVE AllDecode(_)
AllDecode(node) ==
    /\ HasDependencyString(node) => DecodedDependency(node).ok
    /\ \A i \in DOMAIN node.children : AllDecode(node.children[i])

\* the rule the registry offers for a usage of `library`, if any
RuleFor(library, usage) ==
    LET found == get_pattern(patterns, library, usage.pattern_name)
    IN  IF found.some /\ ResolvedEcosystem \in DOMAIN found.v.transformations
        THEN Some(found.v.transformations[ResolvedEcosystem])
        ELSE None

HasFallbackMarker(node) ==
    /\ "requires_manual_implementation" \in DOMAIN Annotations(node)
    /\ Annotations(node)["requires_manual_implementation"] = StrVal(PlainText("true"))
    /\ "fallback_implementation" \in DOMAIN Annotations(node)

\* the fallback guarantee at one node and at every node below it
RECURSIVE FallbackKept(_, _)
FallbackKept(before, after) ==
    /\ HasDependencyString(before) =>
          \A i \in DOMAIN DecodedDependency(before).v.usage_patterns :
              ~RuleFor(DecodedDependency(before).v.name,
                       DecodedDependency(before).v.usage_patterns[i]).some
              => HasFallbackMarker(after)
    /\ Len(after.children) = Len(before.children)
    /\ \A i \in DOMAIN before.children : FallbackKept(before.children[i], after.children[i])

\* C1: when the annotations decode, transform returns Ok, and every node that
\* lists a usage for which the registry offers no rule for the resolved target
\* ecosystem carries requires_manual_implementation = true and
\* fallback_implementation in the result.
C1_FallbackGuarantee ==
    (IsTransformCall /\ AllDecode(call.node)) =>
        /\ ret.ok
        /\ FallbackKept(call.node, ret.v)

\* the placeholders of the parameter map replaced in one pass over the template
RECURSIVE Substitute(_, _)
Substitute(s, parameters) ==
    IF s = "" THEN ""
    ELSE LET hits == {k \in DOMAIN parameters :
                        /\ Len(s) >= Len(Placeholder(k))
                        /\ SubSeq(s, 1, Len(Placeholder(k))) = Placeholder(k)}
         IN  IF hits # {}
             THEN LET k == CHOOSE k \in hits : TRUE
                  IN  parameters[k]
                      \o Substitute(SubSeq(s, Len(Placeholder(k)) + 1, Len(s)), parameters)
             ELSE SubSeq(s, 1, 1) \o Substitute(SubSeq(s, 2, Len(s)), parameters)

\* the usages of the root's dependency to which a rule is applied
AppliedUsages ==
    LET d == DecodedDependency(call.node).v
    IN  {i \in DOMAIN d.usage_patterns : RuleFor(d.name, d.usage_patterns[i]).some}

\* C2: when a rule is applied, generated_code is the rule's template with every
\* {{p}} replaced by the usage's value for p, for each key p of the parameter
\* map; a placeholder whose name is no key stays verbatim; rendering never
\* fails.  (With several usages the annotation shows the last one applied.)
C2_TemplateRendering ==
    (/\ IsTransformCall
     /\ AllDecode(call.node)
     /\ HasDependencyString(call.node)
     /\ AppliedUsages # {})
    => LET d == DecodedDependency(call.node).v
           last == CHOOSE i \in AppliedUsages : \A j \in AppliedUsages : j <= i
           usage == d.usage_patterns[last]
       IN  /\ ret.ok
           /\ "generated_code" \in DOMAIN Annotations(ret.v)
           /\ Annotations(ret.v)["generated_code"] =
                 StrVal(PlainText(Substitute(RuleFor(d.name, usage).v.template,
                                             usage.parameters)))

\* C3: a library_dependency string that does not decode makes transform fail
\* with an error of kind TransformationError.
C3_MalformedIsTransformationError ==
    (/\ IsTransformCall
     /\ HasDependencyString(call.node)
     /\ ~DecodedDependency(call.node).ok)
    => /\ ~ret.ok
       /\ ret.err.kind = "TransformationError"

(***************************************************************************)
(* Dependency detector (detector.rs)                                       *)
(*                                                                         *)
(* Source code is a sequence of lines, each ending in a newline; the text  *)
(* handed to the detector is their concatenation.  The regex crate is      *)
(* modelled by its answers: LineMatches gives, for a signature and a line, *)
(* the leftmost non-overlapping matches with the byte spans of the match   *)
(* and of every named group that took part.  No signature matches across   *)
(* a line break of these lines, so the matches in a text are the matches   *)
(* in its lines, shifted by the offset of the line.                        *)
(***************************************************************************)
\* the signatures, as written in detector.rs:
\* react_useState_import   import.*\{[^}]*useState[^}]*\}.*from.*['"]react['"]
\* react_useState_usage    const\s*\[\s*(?P<state>\w+)\s*,\s*(?P<setter>\w+)\s*\]\s*=\s*useState\s*\(\s*(?P<initial>[^)]*)\s*\)
\* react_useEffect_import  import.*\{[^}]*useEffect[^}]*\}.*from.*['"]react['"]
\* react_useEffect_usage   useEffect\s*\(\s*(?P<callback>[^,]+)\s*,\s*(?P<deps>\[[^\]]*\])\s*\)
\* django_import           from\s+django\.db\s+import\s+models
\* django_Model_usage      class\s+(?P<name>\w+)\s*\(\s*models\.Model\s*\)
\* django_CharField_usage  (?P<field>\w+)\s*=\s*models\.CharField\s*\(\s*max_length\s*=\s*(?P<length>\d+)
\* socket_import           #include\s+<sys/socket\.h>
\* socket_socket_usage     (?P<var>\w+)\s*=\s*socket\s*\(\s*(?P<family>AF_\w+)\s*,\s*(?P<type>SOCK_\w+)\s*,\s*(?P<protocol>\d+)\s*\)
Match(s, e, groups) == [start |-> s, end |-> e, groups |-> groups]

LineMatches(regex, line) ==
    CASE regex = "react_useState_import" /\ line = "import { useState } from 'react';\n" ->
            <<Match(0, 32, EmptyMap)>>
      [] regex = "react_useState_import" /\ line = "import { useState, useEffect } from 'react';\n" ->
            <<Match(0, 43, EmptyMap)>>
      [] regex = "react_useState_usage" /\ line = "const [count, setCount] = useState(0);\n" ->
            <<Match(0, 37, [g \in {"state", "setter", "initial"} |->
                      CASE g = "state" -> <<7, 12>>
                        [] g = "setter" -> <<14, 22>>
                        [] OTHER -> <<35, 36>>])>>
      [] regex = "react_useEffect_import" /\ line = "import { useEffect } from 'react';\n" ->
            <<Match(0, 33, EmptyMap)>>
      [] regex = "react_useEffect_import" /\ line = "import { useState, useEffect } from 'react';\n" ->
            <<Match(0, 43, EmptyMap)>>
      [] regex = "react_useEffect_usage" /\ line = "useEffect(fetchData, []);\n" ->
            <<Match(0, 24, [g \in {"callback", "deps"} |->
                      CASE g = "callback" -> <<10, 19>>
                        [] OTHER -> <<21, 23>>])>>
      [] regex = "react_useEffect_usage" /\ line = "useEffect({{deps}}, []);\n" ->
            <<Match(0, 23, [g \in {"callback", "deps"} |->
                      CASE g = "callback" -> <<10, 18>>
                        [] OTHER -> <<20, 22>>])>>
      [] regex = "django_import" /\ line = "from django.db import models\n" ->
            <<Match(0, 28, EmptyMap)>>
      [] regex = "django_Model_usage" /\ line = "class User(models.Model):\n" ->
            <<Match(0, 24, [g \in {"name"} |->
                      <<6, 10>>])>>
      [] regex = "django_CharField_usage" /\ line = "    name = models.CharField(max_length=100)\n" ->
            <<Match(4, 42, [g \in {"field", "length"} |->
                      CASE g = "field" -> <<4, 8>>
                        [] OTHER -> <<39, 42>>])>>
      [] regex = "socket_import" /\ line = "#include <sys/socket.h>\n" ->
            <<Match(0, 23, EmptyMap)>>
      [] regex = "socket_socket_usage" /\ line = "int sock = socket(AF_INET, SOCK_STREAM, 0);\n" ->
            <<Match(4, 42, [g \in {"var", "family", "type", "protocol"} |->
                      CASE g = "var" -> <<4, 8>>
                        [] g = "family" -> <<18, 25>>
                        [] g = "type" -> <<27, 38>>
                        [] OTHER -> <<40, 41>>])>>
      [] OTHER -> <<>>

RECURSIVE SourceText(_)
SourceText(lines) == IF lines = <<>> THEN "" ELSE Head(lines) \o SourceText(Tail(lines))

\* byte offset of line i in the text
RECURSIVE LineStart(_, _)
LineStart(lines, i) == IF i = 1 THEN 0 ELSE LineStart(lines, i - 1) + Len(lines[i - 1])

Shift(m, by) ==
    [start |-> m.start + by, end |-> m.end + by,
     groups |-> [g \in DOMAIN m.groups |-> <<m.groups[g][1] + by, m.groups[g][2] + by>>]]

\* Regex::captures_iter: the successive non-overlapping matches, in text order
captures_iter(regex, lines) ==
    Flatten([i \in 1..Len(lines) |->
                [j \in 1..Len(LineMatches(regex, lines[i])) |->
                    Shift(LineMatches(regex, lines[i])[j], LineStart(lines, i))]])

\* Regex::is_match
is_match(regex, lines) == \E i \in 1..Len(lines) : LineMatches(regex, lines[i]) # <<>>

\* Match::as_str: the bytes of the text in [span[1], span[2])
as_str(text, span) == SubSeq(text, span[1] + 1, span[2])

UsagePattern(name, regex, semantic_intent, extract_params) ==
    [name |-> name, regex |-> regex, semantic_intent |-> semantic_intent,
     extract_params |-> extract_params]

DetectionPattern(library_name, import_regex, ecosystem, usage_patterns) ==
    [library_name |-> library_name, import_regex |-> import_regex,
     ecosystem |-> ecosystem, usage_patterns |-> usage_patterns]

register_react_patterns ==
    << DetectionPattern("react", "react_useState_import", "javascript",
          << UsagePattern("useState", "react_useState_usage", "reactive_state_management",
                          <<"state", "setter", "initial">>) >>),
       DetectionPattern("react", "react_useEffect_import", "javascript",
          << UsagePattern("useEffect", "react_useEffect_usage", "side_effect_lifecycle",
                          <<"callback", "deps">>) >>) >>

register_django_patterns ==
    << DetectionPattern("django", "django_import", "python",
          << UsagePattern("Model", "django_Model_usage", "orm_model", <<"name">>),
             UsagePattern("CharField", "django_CharField_usage", "text_field",
                          <<"field", "length">>) >>) >>

register_networking_patterns ==
    << DetectionPattern("socket", "socket_import", "c",
          << UsagePattern("socket", "socket_socket_usage", "tcp_socket_creation",
                          <<"var", "family", "type">>) >>) >>

\* DependencyDetector.patterns after new(): Language -> Vec<DetectionPattern>
register_default_patterns ==
    [language \in {"JavaScript", "Python", "C"} |->
        CASE language = "JavaScript" -> register_react_patterns
          [] language = "Python" -> register_django_patterns
          [] OTHER -> register_networking_patterns]

\* the LibraryUsage built from one capture of a usage signature
capture_usage(usage, capture, lines) ==
    [pattern_name |-> usage.name,
     method_name |-> as_str(SourceText(lines), <<capture.start, capture.end>>),
     parameters |-> [param_name \in {p \in Range(usage.extract_params) :
                                        p \in DOMAIN capture.groups} |->
                        as_str(SourceText(lines), capture.groups[param_name])],
     semantic_intent |-> usage.semantic_intent,
     source_location |-> <<capture.start, capture.end>>]

\* the usages of one library entry: per usage signature in order, per match in order
collect_usages(lines, pattern) ==
    Flatten([u \in 1..Len(pattern.usage_patterns) |->
                [c \in 1..Len(captures_iter(pattern.usage_patterns[u].regex, lines)) |->
                    capture_usage(pattern.usage_patterns[u],
                                  captures_iter(pattern.usage_patterns[u].regex, lines)[c],
                                  lines)]])

\* detect_library_usage without its import check
detect_library_usage_ungated(lines, pattern) ==
    IF collect_usages(lines, pattern) = <<>> THEN Ok(None)
    ELSE Ok(Some([name |-> pattern.library_name, version |-> None,
                  ecosystem |-> pattern.ecosystem, import_path |-> None,
                  usage_patterns |-> collect_usages(lines, pattern)]))

detect_library_usage(lines, pattern) ==
    IF ~is_match(pattern.import_regex, lines) THEN Ok(None)
    ELSE IF collect_usages(lines, pattern) = <<>> THEN Ok(None)
    ELSE Ok(Some([name |-> pattern.library_name, version |-> None,
                  ecosystem |-> pattern.ecosystem, import_path |-> None,
                  usage_patterns |-> collect_usages(lines, pattern)]))

RECURSIVE detect_each(_, _)
detect_each(lines, entries) ==
    IF entries = <<>> THEN <<>>
    ELSE LET dep == detect_library_usage(lines, Head(entries)).v
         IN  (IF dep.some THEN <<dep.v>> ELSE <<>>) \o detect_each(lines, Tail(entries))

\* detect_dependencies with an empty pattern list for an unregistered language
detect_dependencies_or_default(lines, language) ==
    IF language \notin DOMAIN register_default_patterns
    THEN Ok(<<>>)
    ELSE Ok(detect_each(lines, register_default_patterns[language]))

detect_dependencies(lines, language) ==
    IF language \notin DOMAIN register_default_patterns
    THEN Err(UnsupportedLanguage(language))
    ELSE Ok(detect_each(lines, register_default_patterns[language]))

(***************************************************************************)
(* Calls on the detector                                                   *)
(***************************************************************************)
MaxLines == 3

JavaScriptLines ==
    {"import { useState } from 'react';\n",
     "import { useEffect } from 'react';\n",
     "import { useState, useEffect } from 'react';\n",
     "const [count, setCount] = useState(0);\n",
     "useEffect(fetchData, []);\n",
     "useEffect({{deps}}, []);\n"}

PythonLines ==
    {"from django.db import models\n",
     "class User(models.Model):\n",
     "    name = models.CharField(max_length=100)\n"}

CLines ==
    {"#include <sys/socket.h>\n",
     "int sock = socket(AF_INET, SOCK_STREAM, 0);\n",
     "int x = 0;\n"}

\* enum Language
Languages ==
    {"JavaScript", "TypeScript", "Python", "Rust", "Go", "Java", "CSharp", "FSharp",
     "VisualBasic", "Cobol", "Fortran", "C", "Cpp"}

DetectLanguages == Languages

LinesOf(language) ==
    CASE language = "JavaScript" -> JavaScriptLines
      [] language = "Python" -> PythonLines
      [] language = "C" -> CLines
      [] OTHER -> JavaScriptLines

InitDetect ==
    /\ patterns = register_defaults(EmptyMap)
    /\ ecosystems = register_ecosystem_mappings(EmptyMap)
    /\ lastWrite = NoteWrites(EmptyMap, DefaultPatterns)
    /\ parsed = EmptyMap
    /\ threads = <<>>
    /\ call = IdleCall
    /\ ret = Ok(Unit)

DetectDependencies ==
    /\ Idle
    /\ \E language \in DetectLanguages :
          \E lines \in SeqsUpTo(LinesOf(language), MaxLines) :
              /\ call' = [op |-> "detect_dependencies", language |-> language,
                          lines |-> lines, code |-> SourceText(lines)]
              /\ ret' = detect_dependencies(lines, language)
    /\ UNCHANGED <<patterns, ecosystems, lastWrite, parsed, threads>>

NextDetect == DetectDependencies \/ Return

SpecDetect == InitDetect /\ [][NextDetect]_vars

(***************************************************************************)
(* Detector claims                                                         *)
(***************************************************************************)
IsDetectCall == call.op = "detect_dependencies"

\* the library entries registered for the language of the call
EntriesOfCall ==
    IF call.language \in DOMAIN register_default_patterns
    THEN register_default_patterns[call.language] ELSE <<>>

\* the import signature of the entry occurs in some line of the text
ImportPresent(entry, lines) ==
    \E i \in 1..Len(lines) : LineMatches(entry.import_regex, lines[i]) # <<>>

\* some usage signature of the entry occurs in some line of the text
UsagePresent(entry, lines) ==
    \E u \in 1..Len(entry.usage_patterns) :
        \E i \in 1..Len(lines) : LineMatches(entry.usage_patterns[u].regex, lines[i]) # <<>>

\* C7: every usage of every dependency returned by detect_dependencies comes
\* from a registered entry of that library whose import signature matches the
\* text; when no entry's import matches, the list is empty, whatever usage
\* signatures match.
C7_ImportGating ==
    (IsDetectCall /\ ret.ok)
    => /\ \A d \in Range(ret.v) :
             \A u \in Range(d.usage_patterns) :
                 \E k \in 1..Len(EntriesOfCall) :
                     /\ EntriesOfCall[k].library_name = d.name
                     /\ u.pattern_name \in
                           {EntriesOfCall[k].usage_patterns[x].name :
                               x \in 1..Len(EntriesOfCall[k].usage_patterns)}
                     /\ ImportPresent(EntriesOfCall[k], call.lines)
       /\ (\A k \in 1..Len(EntriesOfCall) : ~ImportPresent(EntriesOfCall[k], call.lines))
             => ret.v = <<>>

\* usage text of an entry without its import: nothing is returned
C7_Witness ==
    /\ IsDetectCall
    /\ ret.ok
    /\ \E k \in 1..Len(EntriesOfCall) : UsagePresent(EntriesOfCall[k], call.lines)
    /\ \A k \in 1..Len(EntriesOfCall) : ~ImportPresent(EntriesOfCall[k], call.lines)
    /\ ret.v = <<>>

\* C16: detect_dependencies fails, with UnsupportedLanguage(language), exactly
\* when no pattern set is registered for the language, that is for every
\* language other than JavaScript, Python and C, whatever the code is; for
\* those three it returns Ok with a list, possibly empty.
C16_UnsupportedLanguage ==
    IsDetectCall
    => /\ ret.ok <=> call.language \in {"JavaScript", "Python", "C"}
       /\ ~ret.ok => ret.err = UnsupportedLanguage(call.language)
       /\ ret.ok => ret.v \in Seq(Range(ret.v))

\* an unregistered language with code whose React import and usage both match
C16_Witness ==
    /\ IsDetectCall
    /\ call.language = "TypeScript"
    /\ \E k \in 1..Len(register_react_patterns) :
          /\ ImportPresent(register_react_patterns[k], call.lines)
          /\ UsagePresent(register_react_patterns[k], call.lines)
    /\ ret = Err(UnsupportedLanguage("TypeScript"))

\* C8: the list returned by detect_dependencies holds at most one
\* LibraryDependency per library name.
C8_OnePerLibrary ==
    (IsDetectCall /\ ret.ok)
    => \A i, j \in 1..Len(ret.v) : ret.v[i].name = ret.v[j].name => i = j

\* the usage the claim describes for one match: every named group that took
\* part in the match is a parameter
MatchUsage(usage, capture, text) ==
    [pattern_name |-> usage.name,
     method_name |-> as_str(text, <<capture.start, capture.end>>),
     parameters |-> [g \in DOMAIN capture.groups |-> as_str(text, capture.groups[g])],
     semantic_intent |-> usage.semantic_intent,
     source_location |-> <<capture.start, capture.end>>]

MatchUsages(entry, lines) ==
    Flatten([u \in 1..Len(entry.usage_patterns) |->
                [c \in 1..Len(captures_iter(entry.usage_patterns[u].regex, lines)) |->
                    MatchUsage(entry.usage_patterns[u],
                               captures_iter(entry.usage_patterns[u].regex, lines)[c],
                               SourceText(lines))]])

\* the entries of the call that produce a dependency, in registration order
RECURSIVE FiringEntries(_, _)
FiringEntries(entries, lines) ==
    IF entries = <<>> THEN <<>>
    ELSE (IF ImportPresent(Head(entries), lines) /\ UsagePresent(Head(entries), lines)
          THEN <<Head(entries)>> ELSE <<>>) \o FiringEntries(Tail(entries), lines)

\* C9: for an entry whose import matches, the dependency's usages are one per
\* non-overlapping match of each usage signature, in text order, each with
\* every named group of the match as a parameter, the matched text as
\* method_name and the byte range of the match as source_location.
C9_UsagePerMatch ==
    (IsDetectCall /\ ret.ok)
    => /\ Len(ret.v) = Len(FiringEntries(EntriesOfCall, call.lines))
       /\ \A k \in 1..Len(ret.v) :
             ret.v[k].usage_patterns =
                 MatchUsages(FiringEntries(EntriesOfCall, call.lines)[k], call.lines)

(***************************************************************************)
(* Tree-based front ends: the classification of concrete-syntax node kinds *)
(* (cpp.rs, csharp.rs, go.rs, rust_parser.rs, javascript.rs)               *)
(*                                                                         *)
(* A NodeType is written as the text of its Rust value.                    *)
(***************************************************************************)
\* str::contains
Contains(s, sub) ==
    \E i \in 1..(Len(s) - Len(sub) + 1) : SubSeq(s, i, i + Len(sub) - 1) = sub

\* CppParser::convert_to_uir: the uir_node_type chosen for a node kind
cpp_uir_node_type(node_type) ==
    CASE node_type = "translation_unit" -> "Module"
      [] node_type \in {"function_definition", "function_declarator"} -> "Function"
      [] node_type = "parameter_declaration" -> "Variable"
      [] node_type = "class_specifier" -> "Class"
      [] node_type = "method_definition" -> "Function"
      [] node_type = "identifier" -> "Expression(Variable)"
      [] node_type \in {"number_literal", "string_literal", "char_literal", "true", "false"}
            -> "Expression(Literal)"
      [] node_type = "return_statement" -> "Statement(Return)"
      [] node_type = "binary_expression" -> "Expression(Arithmetic)"
      [] node_type = "call_expression" -> "Expression(FunctionCall)"
      [] node_type = "assignment_expression" -> "Expression(Assignment)"
      [] node_type = "if_statement" -> "ControlFlow(Conditional)"
      [] node_type \in {"for_statement", "for_range_loop"} -> "ControlFlow(Loop(For))"
      [] node_type = "while_statement" -> "ControlFlow(Loop(While))"
      [] node_type = "try_statement" -> "ControlFlow(Try)"
      [] node_type = "namespace_definition" -> "Module"
      [] OTHER -> IF Contains(node_type, "statement") THEN "Statement(Expression)"
                  ELSE IF Contains(node_type, "expression") THEN "Expression(Variable)"
                  ELSE "Expression(Literal)"

\* CSharpParser::convert_to_uir
csharp_uir_node_type(node_type) ==
    CASE node_type = "compilation_unit" -> "Module"
      [] node_type \in {"method_declaration", "constructor_declaration"} -> "Function"
      [] node_type = "class_declaration" -> "Class"
      [] node_type = "interface_declaration" -> "Interface"
      [] node_type \in {"struct_declaration", "enum_declaration"} -> "Class"
      [] node_type = "parameter" -> "Variable"
      [] node_type = "identifier" -> "Expression(Variable)"
      [] node_type \in {"integer_literal", "real_literal", "string_literal",
                        "character_literal", "boolean_literal", "null_literal"}
            -> "Expression(Literal)"
      [] node_type = "return_statement" -> "Statement(Return)"
      [] node_type = "binary_expression" -> "Expression(Arithmetic)"
      [] node_type = "invocation_expression" -> "Expression(FunctionCall)"
      [] node_type = "assignment_expression" -> "Expression(Assignment)"
      [] node_type = "if_statement" -> "ControlFlow(Conditional)"
      [] node_type \in {"for_statement", "foreach_statement"} -> "ControlFlow(Loop(For))"
      [] node_type = "while_statement" -> "ControlFlow(Loop(While))"
      [] node_type = "do_statement" -> "ControlFlow(Loop(DoWhile))"
      [] node_type = "switch_statement" -> "ControlFlow(Switch)"
      [] node_type = "try_statement" -> "ControlFlow(Try)"
      [] node_type \in {"namespace_declaration", "using_directive"} -> "Module"
      [] OTHER -> IF Contains(node_type, "statement") THEN "Statement(Expression)"
                  ELSE IF Contains(node_type, "expression") THEN "Expression(Variable)"
                  ELSE "Expression(Literal)"

\* GoParser::convert_to_uir
go_uir_node_type(node_type) ==
    CASE node_type = "source_file" -> "Module"
      [] node_type \in {"function_declaration", "method_declaration"} -> "Function"
      [] node_type \in {"type_declaration", "struct_type"} -> "Class"
      [] node_type = "interface_type" -> "Interface"
      [] node_type = "parameter_declaration" -> "Variable"
      [] node_type = "identifier" -> "Expression(Variable)"
      [] node_type \in {"int_literal", "float_literal", "interpreted_string_literal",
                        "raw_string_literal", "rune_literal", "true", "false"}
            -> "Expression(Literal)"
      [] node_type = "return_statement" -> "Statement(Return)"
      [] node_type = "binary_expression" -> "Expression(Arithmetic)"
      [] node_type = "call_expression" -> "Expression(FunctionCall)"
      [] node_type = "assignment_statement" -> "Expression(Assignment)"
      [] node_type = "if_statement" -> "ControlFlow(Conditional)"
      [] node_type = "for_statement" -> "ControlFlow(Loop(For))"
      [] node_type = "range_clause" -> "ControlFlow(Loop(ForEach))"
      [] node_type \in {"switch_statement", "type_switch_statement"} -> "ControlFlow(Switch)"
      [] node_type \in {"package_clause", "import_declaration"} -> "Module"
      [] OTHER -> IF Contains(node_type, "statement") THEN "Statement(Expression)"
                  ELSE IF Contains(node_type, "expression") THEN "Expression(Variable)"
                  ELSE "Expression(Literal)"

\* RustParser::convert_to_uir
rust_uir_node_type(node_type) ==
    CASE node_type = "source_file" -> "Module"
      [] node_type = "function_item" -> "Function"
      [] node_type \in {"impl_item", "struct_item", "enum_item"} -> "Class"
      [] node_type = "trait_item" -> "Interface"
      [] node_type = "parameter" -> "Variable"
      [] node_type = "identifier" -> "Expression(Variable)"
      [] node_type \in {"integer_literal", "float_literal", "string_literal",
                        "raw_string_literal", "char_literal", "boolean_literal"}
            -> "Expression(Literal)"
      [] node_type = "return_expression" -> "Statement(Return)"
      [] node_type = "binary_expression" -> "Expression(Arithmetic)"
      [] node_type = "call_expression" -> "Expression(FunctionCall)"
      [] node_type = "assignment_expression" -> "Expression(Assignment)"
      [] node_type = "if_expression" -> "ControlFlow(Conditional)"
      [] node_type = "for_expression" -> "ControlFlow(Loop(For))"
      [] node_type \in {"while_expression", "loop_expression"} -> "ControlFlow(Loop(While))"
      [] node_type = "match_expression" -> "ControlFlow(Switch)"
      [] node_type = "mod_item" -> "Module"
      [] OTHER -> IF Contains(node_type, "statement")
                     \/ Contains(node_type, "expression_statement")
                  THEN "Statement(Expression)"
                  ELSE IF Contains(node_type, "expression") THEN "Expression(Variable)"
                  ELSE "Expression(Literal)"

\* JavaScriptParser::map_node_type
map_node_type(kind) ==
    CASE kind \in {"program", "source_file"} -> "Module"
      [] kind \in {"function_declaration", "function_definition"} -> "Function"
      [] kind \in {"variable_declaration", "variable_declarator"} -> "Variable"
      [] kind \in {"if_statement", "while_statement", "for_statement"}
            -> "ControlFlow(Conditional)"
      [] kind = "return_statement" -> "Statement(Return)"
      [] kind = "expression_statement" -> "Statement(Expression)"
      [] kind = "assignment_expression" -> "Expression(Assignment)"
      [] kind \in {"binary_expression", "unary_expression"} -> "Expression(Arithmetic)"
      [] kind = "call_expression" -> "Expression(FunctionCall)"
      [] kind = "identifier" -> "Expression(Variable)"
      [] kind \in {"number", "string", "boolean"} -> "Expression(Literal)"
      [] kind = "class_declaration" -> "Class"
      [] OTHER -> "Expression(Literal)"

\* JavaScriptParser::ast_to_uir: the node_type of the node built for a kind, by
\* the converter the kind is dispatched to (convert_generic for the others)
ast_to_uir_node_type(kind) ==
    CASE kind = "program" -> "Module"
      [] kind \in {"function_declaration", "arrow_function", "method_definition"}
            -> "Function"
      [] kind = "class_declaration" -> "Class"
      [] kind = "variable_declaration" -> "Statement(Expression)"
      [] kind = "return_statement" -> "Statement(Return)"
      [] kind = "if_statement" -> "ControlFlow(Conditional)"
      [] kind = "call_expression" -> "Expression(FunctionCall)"
      [] kind = "binary_expression" -> "Expression(Arithmetic)"
      [] kind = "identifier" -> "Expression(Variable)"
      [] kind \in {"number", "string", "true", "false"} -> "Expression(Literal)"
      [] OTHER -> map_node_type(kind)

FrontEnds == {"JavaScript", "Cpp", "CSharp", "Rust", "Go"}

uir_node_type(front_end, kind) ==
    CASE front_end = "Cpp" -> cpp_uir_node_type(kind)
      [] front_end = "CSharp" -> csharp_uir_node_type(kind)
      [] front_end = "Go" -> go_uir_node_type(kind)
      [] front_end = "Rust" -> rust_uir_node_type(kind)
      [] OTHER -> ast_to_uir_node_type(kind)

\* the kinds each front end names in its mapping table
ListedKinds(front_end) ==
    CASE front_end = "Cpp" ->
            {"translation_unit", "function_definition", "function_declarator",
             "parameter_declaration", "class_specifier", "method_definition",
             "identifier", "number_literal", "string_literal", "char_literal", "true",
             "false", "return_statement", "binary_expression", "call_expression",
             "assignment_expression", "if_statement", "for_statement", "for_range_loop",
             "while_statement", "try_statement", "namespace_definition"}
      [] front_end = "CSharp" ->
            {"compilation_unit", "method_declaration", "constructor_declaration",
             "class_declaration", "interface_declaration", "struct_declaration",
             "enum_declaration", "parameter", "identifier", "integer_literal",
             "real_literal", "string_literal", "character_literal", "boolean_literal",
             "null_literal", "return_statement", "binary_expression",
             "invocation_expression", "assignment_expression", "if_statement",
             "for_statement", "foreach_statement", "while_statement", "do_statement",
             "switch_statement", "try_statement", "namespace_declaration",
             "using_directive"}
      [] front_end = "Go" ->
            {"source_file", "function_declaration", "method_declaration",
             "type_declaration", "struct_type", "interface_type",
             "parameter_declaration", "identifier", "int_literal", "float_literal",
             "interpreted_string_literal", "raw_string_literal", "rune_literal", "true",
             "false", "return_statement", "binary_expression", "call_expression",
             "assignment_statement", "if_statement", "for_statement", "range_clause",
             "switch_statement", "type_switch_statement", "package_clause",
             "import_declaration"}
      [] front_end = "Rust" ->
            {"source_file", "function_item", "impl_item", "struct_item", "enum_item",
             "trait_item", "parameter", "identifier", "integer_literal", "float_literal",
             "string_literal", "raw_string_literal", "char_literal", "boolean_literal",
             "return_expression", "binary_expression", "call_expression",
             "assignment_expression", "if_expression", "for_expression",
             "while_expression", "loop_expression", "match_expression", "mod_item"}
      [] OTHER ->
            {"program", "function_declaration", "arrow_function", "class_declaration",
             "method_definition", "variable_declaration", "return_statement",
             "if_statement", "call_expression", "binary_expression", "identifier",
             "number", "string", "true", "false",
             "source_file", "function_definition", "variable_declarator",
             "while_statement", "for_statement", "expression_statement",
             "assignment_expression", "unary_expression", "boolean"}

\* node kinds of the tree-sitter grammars, listed and unlisted
KindPool ==
    {"translation_unit", "compilation_unit", "source_file", "program",
     "function_definition", "function_item", "function_declaration",
     "identifier", "number_literal", "integer_literal", "int_literal", "number",
     "return_statement", "return_expression", "binary_expression", "call_expression",
     "if_statement", "for_statement", "while_statement", "switch_statement",
     "try_statement", "do_statement", "break_statement", "expression_statement",
     "labeled_statement", "compound_statement", "statement_block",
     "member_expression", "unary_expression", "parenthesized_expression",
     "field_expression", "await_expression",
     "comment", "block", "type_identifier", "lexical_declaration"}

InitParse ==
    /\ patterns = register_defaults(EmptyMap)
    /\ ecosystems = register_ecosystem_mappings(EmptyMap)
    /\ lastWrite = NoteWrites(EmptyMap, DefaultPatterns)
    /\ parsed = EmptyMap
    /\ threads = <<>>
    /\ call = IdleCall
    /\ ret = Ok(Unit)

\* a front end converts a concrete-syntax node of some kind
ConvertToUir ==
    /\ Idle
    /\ \E front_end \in FrontEnds \ {"JavaScript"} :
          \E kind \in KindPool :
              /\ call' = [op |-> "convert_to_uir", front_end |-> front_end, kind |-> kind]
              /\ ret' = Ok(uir_node_type(front_end, kind))
    /\ UNCHANGED <<patterns, ecosystems, lastWrite, parsed, threads>>

AstToUir ==
    /\ Idle
    /\ \E kind \in KindPool :
          /\ call' = [op |-> "convert_to_uir", front_end |-> "JavaScript", kind |-> kind]
          /\ ret' = Ok(uir_node_type("JavaScript", kind))
    /\ UNCHANGED <<patterns, ecosystems, lastWrite, parsed, threads>>

(***************************************************************************)
(* The front-end factory (coalesce-parser/src/lib.rs)                      *)
(***************************************************************************)
\* CoalesceError::ParseError
ParseError(message, line, column) ==
    [kind |-> "ParseError", message |-> message, line |-> line, column |-> column]

\* XParser::new(): the parser object; its only observable is language()
JavaScriptParser_new == Ok([language |-> "JavaScript"])
CppParser_new == Ok([language |-> "Cpp"])
CSharpParser_new == Ok([language |-> "CSharp"])
FSharpParser_new == Ok([language |-> "FSharp"])
VisualBasicParser_new == Ok([language |-> "VisualBasic"])
RustParser_new == Ok([language |-> "Rust"])
GoParser_new == Ok([language |-> "Go"])
\* the C front end (module c, not part of the sources at hand)
CParser_new == Ok([language |-> "C"])

create_parser(language) ==
    CASE language = "JavaScript" -> JavaScriptParser_new
      [] language = "C" -> CParser_new
      [] language = "Cpp" -> CppParser_new
      [] language = "CSharp" -> CSharpParser_new
      [] language = "FSharp" -> FSharpParser_new
      [] language = "VisualBasic" -> VisualBasicParser_new
      [] language = "Rust" -> RustParser_new
      [] language = "Go" -> GoParser_new
      [] language = "Python" -> Err(ParseError("Python parser not yet implemented", 0, 0))
      [] language = "Cobol" -> Err(ParseError("COBOL parser not yet implemented", 0, 0))
      [] OTHER -> Err(ParseError("Unsupported language", 0, 0))

CreateParser ==
    /\ Idle
    /\ \E language \in Languages :
          /\ call' = [op |-> "create_parser", language |-> language]
          /\ ret' = create_parser(language)
    /\ UNCHANGED <<patterns, ecosystems, lastWrite, parsed, threads>>

(***************************************************************************)
(* Text helpers (str and char methods used by the front ends)              *)
(***************************************************************************)
MinOf(S) == CHOOSE x \in S : \A y \in S : x <= y
MaxOf(S) == CHOOSE x \in S : \A y \in S : y <= x

CharAt(s, i) == SubSeq(s, i, i)

LowerCase ==
    {"a", "b", "c", "d", "e", "f", "g", "h", "i", "j", "k", "l", "m",
     "n", "o", "p", "q", "r", "s", "t", "u", "v", "w", "x", "y", "z"}
UpperCase ==
    {"A", "B", "C", "D", "E", "F", "G", "H", "I", "J", "K", "L", "M",
     "N", "O", "P", "Q", "R", "S", "T", "U", "V", "W", "X", "Y", "Z"}
Digits == {"0", "1", "2", "3", "4", "5", "6", "7", "8", "9"}

\* char::is_alphabetic, char::is_alphanumeric (ASCII text)
is_alphabetic(c) == c \in LowerCase \cup UpperCase
is_alphanumeric(c) == is_alphabetic(c) \/ c \in Digits

\* char::is_whitespace: the characters with the property White_Space.  The
\* strings of the model are ASCII, where these are U+0009 to U+000D and the
\* space.  VerticalTab holds the one character U+000B, which has no escape.
VerticalTab == ""
is_whitespace(c) == c \in {" ", "\t", "\n", VerticalTab, "\f", "\r"}

\* chars().take(n).collect::<String>()
Take(s, n) == SubSeq(s, 1, IF Len(s) < n THEN Len(s) ELSE n)

\* replace(|c: char| !c.is_alphanumeric(), "_")
RECURSIVE replace_non_alphanumeric(_)
replace_non_alphanumeric(s) ==
    IF Len(s) = 0 THEN ""
    ELSE (IF is_alphanumeric(CharAt(s, 1)) THEN CharAt(s, 1) ELSE "_")
         \o replace_non_alphanumeric(SubSeq(s, 2, Len(s)))

\* str::trim
trim(s) ==
    LET keep == {i \in 1..Len(s) : ~is_whitespace(CharAt(s, i))}
    IN IF keep = {} THEN "" ELSE SubSeq(s, MinOf(keep), MaxOf(keep))

\* str::split_whitespace
RECURSIVE split_whitespace(_)
split_whitespace(s) ==
    LET keep == {i \in 1..Len(s) : ~is_whitespace(CharAt(s, i))}
    IN IF keep = {} THEN <<>>
       ELSE LET first == MinOf(keep)
                stops == {i \in first..Len(s) : is_whitespace(CharAt(s, i))}
                stop == IF stops = {} THEN Len(s) + 1 ELSE MinOf(stops)
            IN <<SubSeq(s, first, stop - 1)>> \o split_whitespace(SubSeq(s, stop, Len(s)))

\* str::split(sep) for a one-character separator
RECURSIVE split(_, _)
split(s, sep) ==
    LET at == {i \in 1..Len(s) : CharAt(s, i) = sep}
    IN IF at = {} THEN <<s>>
       ELSE <<SubSeq(s, 1, MinOf(at) - 1)>> \o split(SubSeq(s, MinOf(at) + 1, Len(s)), sep)

\* chars().all(|c| c.is_alphanumeric() || c == '_')
is_word(s) == \A i \in 1..Len(s) : is_alphanumeric(CharAt(s, i)) \/ CharAt(s, i) = "_"

\* matches(char::is_whitespace).count()
whitespace_count(s) == Cardinality({i \in 1..Len(s) : is_whitespace(CharAt(s, i))})

(***************************************************************************)
(* Concrete syntax trees: tree_sitter::Node as the front ends read it.     *)
(* A node has its kind, its byte range in the source, the is_error and     *)
(* is_extra flags and its children (named and anonymous, in source order). *)
(***************************************************************************)
TSNode(kind, start_byte, end_byte, children) ==
    [kind |-> kind, start_byte |-> start_byte, end_byte |-> end_byte,
     is_error |-> FALSE, is_extra |-> FALSE, children |-> children]

\* a leaf: a token or a childless named node
Leaf(kind, start_byte, end_byte) == TSNode(kind, start_byte, end_byte, <<>>)

\* a node the grammar engine flags as a syntax error
ErrorNode(start_byte, end_byte, children) ==
    [TSNode("ERROR", start_byte, end_byte, children) EXCEPT !.is_error = TRUE]

\* Node::utf8_text / &source[node.byte_range()]
node_text(node, source) == SubSeq(source, node.start_byte + 1, node.end_byte)

\* Node::start_position: .row and .column of the first byte
start_row(node, source) ==
    Cardinality({i \in 1..node.start_byte : CharAt(source, i) = "\n"})
start_column(node, source) ==
    LET breaks == {i \in 1..node.start_byte : CharAt(source, i) = "\n"}
    IN IF breaks = {} THEN node.start_byte ELSE node.start_byte - MaxOf(breaks)

\* Node::has_error: the node or one of its descendants is a syntax error
RECURSIVE has_error(_)
has_error(node) ==
    node.is_error \/ \E i \in 1..Len(node.children) : has_error(node.children[i])

\* UIRNode as the front ends build it: id, node_type, name, children (the
\* metadata and the source location are left out)
ParsedNode(id, node_type, name, children) ==
    [id |-> id, node_type |-> node_type, name |-> name, children |-> children]

\* the first child of one of the kinds, as in `for child in node.children(..)
\* { if child.kind() == .. { return .. } }`
find_child(node, kinds) ==
    LET at == {i \in 1..Len(node.children) : node.children[i].kind \in kinds}
    IN IF at = {} THEN None ELSE Some(node.children[MinOf(at)])

\* the text of that child
child_text(source, node, kinds) ==
    IF find_child(node, kinds).some
    THEN Some(node_text(find_child(node, kinds).v, source))
    ELSE None

\* Some(format!("{prefix}{name}")) for the child, or the given default
prefixed_child_text(source, node, kinds, prefix, default) ==
    IF child_text(source, node, kinds).some
    THEN Some(prefix \o child_text(source, node, kinds).v)
    ELSE default

(***************************************************************************)
(* The C++, C#, Go and Rust front ends: convert_to_uir                     *)
(***************************************************************************)
\* CppParser::extract_function_name
RECURSIVE extract_function_name(_, _)
extract_function_name(source, node) ==
    LET child == find_child(node, {"identifier", "function_declarator"})
    IN IF ~child.some THEN None
       ELSE IF child.v.kind = "identifier" THEN Some(node_text(child.v, source))
       ELSE extract_function_name(source, child.v)

\* CppParser::extract_namespace_name
extract_namespace_name(source, node) ==
    prefixed_child_text(source, node, {"identifier"}, "namespace_",
                        Some("anonymous_namespace"))

\* the name arm of CppParser::convert_to_uir
cpp_name(source, node) ==
    CASE node.kind = "translation_unit" -> Some("cpp_program")
      [] node.kind \in {"function_definition", "function_declarator", "method_definition"}
            -> extract_function_name(source, node)
      [] node.kind = "parameter_declaration" -> child_text(source, node, {"identifier"})
      [] node.kind = "class_specifier"
            -> child_text(source, node, {"type_identifier", "identifier"})
      [] node.kind = "identifier" -> Some(node_text(node, source))
      [] node.kind = "namespace_definition" -> extract_namespace_name(source, node)
      [] OTHER -> None

\* the name arm of CSharpParser::convert_to_uir
csharp_name(source, node) ==
    CASE node.kind = "compilation_unit" -> Some("csharp_program")
      [] node.kind \in {"method_declaration", "class_declaration", "interface_declaration",
                        "struct_declaration", "enum_declaration", "parameter"}
            -> child_text(source, node, {"identifier"})
      [] node.kind = "constructor_declaration"
            -> prefixed_child_text(source, node, {"identifier"}, "ctor_",
                                   Some("constructor"))
      [] node.kind = "identifier" -> Some(node_text(node, source))
      [] node.kind = "namespace_declaration"
            -> prefixed_child_text(source, node, {"qualified_name", "identifier"},
                                   "namespace_", Some("global_namespace"))
      [] node.kind = "using_directive"
            -> IF child_text(source, node, {"qualified_name", "identifier"}).some
               THEN Some("using_" \o Replace(
                        child_text(source, node, {"qualified_name", "identifier"}).v,
                        ".", "_"))
               ELSE Some("unknown_using")
      [] OTHER -> None

\* GoParser::extract_type_name
extract_type_name(source, node) ==
    IF find_child(node, {"type_spec"}).some
    THEN child_text(source, find_child(node, {"type_spec"}).v, {"type_identifier"})
    ELSE None

\* the name arm of GoParser::convert_to_uir
go_name(source, node) ==
    CASE node.kind = "source_file" -> Some("go_program")
      [] node.kind \in {"function_declaration", "method_declaration",
                        "parameter_declaration"}
            -> child_text(source, node, {"identifier"})
      [] node.kind = "type_declaration" -> extract_type_name(source, node)
      [] node.kind = "struct_type" -> Some("anonymous_struct")
      [] node.kind = "interface_type" -> Some("anonymous_interface")
      [] node.kind = "identifier" -> Some(node_text(node, source))
      [] node.kind = "package_clause"
            -> prefixed_child_text(source, node, {"package_identifier"}, "package_",
                                   Some("main_package"))
      [] node.kind = "import_declaration"
            -> IF child_text(source, node, {"import_spec"}).some
               THEN Some("import_" \o Replace(Replace(
                        child_text(source, node, {"import_spec"}).v, "\"", ""), "/", "_"))
               ELSE Some("unknown_import")
      [] OTHER -> None

\* the name arm of RustParser::convert_to_uir
rust_name(source, node) ==
    CASE node.kind = "source_file" -> Some("rust_program")
      [] node.kind \in {"function_item", "parameter"}
            -> child_text(source, node, {"identifier"})
      [] node.kind = "impl_item"
            -> prefixed_child_text(source, node, {"type_identifier"}, "impl_",
                                   Some("anonymous_impl"))
      [] node.kind \in {"struct_item", "enum_item", "trait_item"}
            -> child_text(source, node, {"type_identifier"})
      [] node.kind = "identifier" -> Some(node_text(node, source))
      [] node.kind = "mod_item"
            -> prefixed_child_text(source, node, {"identifier"}, "mod_",
                                   Some("anonymous_mod"))
      [] OTHER -> None

node_name(front_end, source, node) ==
    CASE front_end = "Cpp" -> cpp_name(source, node)
      [] front_end = "CSharp" -> csharp_name(source, node)
      [] front_end = "Go" -> go_name(source, node)
      [] OTHER -> rust_name(source, node)

\* the id built in convert_to_uir: kind, start row, start column and the
\* first 15 characters of the text, spaces replaced by "_"
convert_to_uir_id(source, node) ==
    Replace(node.kind, " ", "_")
    \o "_" \o ToString(start_row(node, source))
    \o "_" \o ToString(start_column(node, source))
    \o "_" \o Replace(Take(node_text(node, source), 15), " ", "_")

\* convert_to_uir(source, node, depth): the node with its kind's class and
\* name and the conversions of its children that are not error nodes; no
\* path returns Err
RECURSIVE convert_to_uir(_, _, _)
convert_to_uir(front_end, source, node) ==
    LET kept == SelectSeq(node.children, LAMBDA child : ~child.is_error)
    IN Ok(ParsedNode(convert_to_uir_id(source, node),
                     uir_node_type(front_end, node.kind),
                     node_name(front_end, source, node),
                     [i \in 1..Len(kept) |-> convert_to_uir(front_end, source, kept[i]).v]))

\* tree_sitter::Parser::parse(source, None): the tree of the source under the
\* front end's grammar (None only when parsing is cancelled)
ts_parse(front_end, source) ==
    CASE front_end = "JavaScript" /\ source = "function add(a, b) { return a + b; }" ->
            TSNode("program", 0, 36, <<TSNode("function_declaration", 0, 36,
                <<Leaf("function", 0, 8), Leaf("identifier", 9, 12),
                TSNode("formal_parameters", 12, 18, <<Leaf("(", 12, 13), Leaf("identifier",
                13, 14), Leaf(",", 14, 15), Leaf("identifier", 16, 17), Leaf(")", 17,
                18)>>), TSNode("statement_block", 19, 36, <<Leaf("{", 19, 20),
                TSNode("return_statement", 21, 34, <<Leaf("return", 21, 27),
                TSNode("binary_expression", 28, 33, <<Leaf("identifier", 28, 29), Leaf("+",
                30, 31), Leaf("identifier", 32, 33)>>), Leaf(";", 33, 34)>>), Leaf("}", 35,
                36)>>)>>)>>)
      [] front_end = "JavaScript" /\ source = "function first(x, y, z) { return x + z; }" ->
            TSNode("program", 0, 41, <<TSNode("function_declaration", 0, 41,
                <<Leaf("function", 0, 8), Leaf("identifier", 9, 14),
                TSNode("formal_parameters", 14, 23, <<Leaf("(", 14, 15), Leaf("identifier",
                15, 16), Leaf(",", 16, 17), Leaf("identifier", 18, 19), Leaf(",", 19, 20),
                Leaf("identifier", 21, 22), Leaf(")", 22, 23)>>), TSNode("statement_block",
                24, 41, <<Leaf("{", 24, 25), TSNode("return_statement", 26, 39,
                <<Leaf("return", 26, 32), TSNode("binary_expression", 33, 38,
                <<Leaf("identifier", 33, 34), Leaf("+", 35, 36), Leaf("identifier", 37,
                38)>>), Leaf(";", 38, 39)>>), Leaf("}", 40, 41)>>)>>)>>)
      [] front_end = "JavaScript" /\ source = "class A { 'm'() { return 1; } n() { return 2; } }" ->
            TSNode("program", 0, 49, <<TSNode("class_declaration", 0, 49, <<Leaf("class",
                0, 5), Leaf("identifier", 6, 7), TSNode("class_body", 8, 49, <<Leaf("{", 8,
                9), TSNode("method_definition", 10, 29, <<TSNode("string", 10, 13,
                <<Leaf("'", 10, 11), Leaf("string_fragment", 11, 12), Leaf("'", 12, 13)>>),
                TSNode("formal_parameters", 13, 15, <<Leaf("(", 13, 14), Leaf(")", 14,
                15)>>), TSNode("statement_block", 16, 29, <<Leaf("{", 16, 17),
                TSNode("return_statement", 18, 27, <<Leaf("return", 18, 24), Leaf("number",
                25, 26), Leaf(";", 26, 27)>>), Leaf("}", 28, 29)>>)>>),
                TSNode("method_definition", 30, 47, <<Leaf("property_identifier", 30, 31),
                TSNode("formal_parameters", 31, 33, <<Leaf("(", 31, 32), Leaf(")", 32,
                33)>>), TSNode("statement_block", 34, 47, <<Leaf("{", 34, 35),
                TSNode("return_statement", 36, 45, <<Leaf("return", 36, 42), Leaf("number",
                43, 44), Leaf(";", 44, 45)>>), Leaf("}", 46, 47)>>)>>), Leaf("}", 48,
                49)>>)>>)>>)
      [] front_end = "JavaScript" /\ source = "function add(a, b) { return a + b; }\nfunction (" ->
            TSNode("program", 0, 47, <<TSNode("function_declaration", 0, 36,
                <<Leaf("function", 0, 8), Leaf("identifier", 9, 12),
                TSNode("formal_parameters", 12, 18, <<Leaf("(", 12, 13), Leaf("identifier",
                13, 14), Leaf(",", 14, 15), Leaf("identifier", 16, 17), Leaf(")", 17,
                18)>>), TSNode("statement_block", 19, 36, <<Leaf("{", 19, 20),
                TSNode("return_statement", 21, 34, <<Leaf("return", 21, 27),
                TSNode("binary_expression", 28, 33, <<Leaf("identifier", 28, 29), Leaf("+",
                30, 31), Leaf("identifier", 32, 33)>>), Leaf(";", 33, 34)>>), Leaf("}", 35,
                36)>>)>>), ErrorNode(37, 47, <<Leaf("function", 37, 45),
                TSNode("formal_parameters", 46, 47, <<Leaf("(", 46, 47)>>)>>)>>)
      [] front_end = "JavaScript" /\ source = "aVeryLongIdentifierName + b + c;" ->
            TSNode("program", 0, 32, <<TSNode("expression_statement", 0, 32,
                <<TSNode("binary_expression", 0, 31, <<TSNode("binary_expression", 0, 27,
                <<Leaf("identifier", 0, 23), Leaf("+", 24, 25), Leaf("identifier", 26,
                27)>>), Leaf("+", 28, 29), Leaf("identifier", 30, 31)>>), Leaf(";", 31,
                32)>>)>>)
      [] front_end = "Cpp" /\ source = "int add(int a, int b) { return a + b; }" ->
            TSNode("translation_unit", 0, 39, <<TSNode("function_definition", 0, 39,
                <<Leaf("primitive_type", 0, 3), TSNode("function_declarator", 4, 21,
                <<Leaf("identifier", 4, 7), TSNode("parameter_list", 7, 21, <<Leaf("(", 7,
                8), TSNode("parameter_declaration", 8, 13, <<Leaf("primitive_type", 8, 11),
                Leaf("identifier", 12, 13)>>), Leaf(",", 13, 14),
                TSNode("parameter_declaration", 15, 20, <<Leaf("primitive_type", 15, 18),
                Leaf("identifier", 19, 20)>>), Leaf(")", 20, 21)>>)>>),
                TSNode("compound_statement", 22, 39, <<Leaf("{", 22, 23),
                TSNode("return_statement", 24, 37, <<Leaf("return", 24, 30),
                TSNode("binary_expression", 31, 36, <<Leaf("identifier", 31, 32), Leaf("+",
                33, 34), Leaf("identifier", 35, 36)>>), Leaf(";", 36, 37)>>), Leaf("}", 38,
                39)>>)>>)>>)
      [] front_end = "Cpp" /\ source = "namespace { }" ->
            TSNode("translation_unit", 0, 13, <<TSNode("namespace_definition", 0, 13,
                <<Leaf("namespace", 0, 9), TSNode("declaration_list", 10, 13, <<Leaf("{",
                10, 11), Leaf("}", 12, 13)>>)>>)>>)
      [] front_end = "Cpp" /\ source = "int add(int a, int b) { return a + b; }\n}" ->
            TSNode("translation_unit", 0, 41, <<TSNode("function_definition", 0, 39,
                <<Leaf("primitive_type", 0, 3), TSNode("function_declarator", 4, 21,
                <<Leaf("identifier", 4, 7), TSNode("parameter_list", 7, 21, <<Leaf("(", 7,
                8), TSNode("parameter_declaration", 8, 13, <<Leaf("primitive_type", 8, 11),
                Leaf("identifier", 12, 13)>>), Leaf(",", 13, 14),
                TSNode("parameter_declaration", 15, 20, <<Leaf("primitive_type", 15, 18),
                Leaf("identifier", 19, 20)>>), Leaf(")", 20, 21)>>)>>),
                TSNode("compound_statement", 22, 39, <<Leaf("{", 22, 23),
                TSNode("return_statement", 24, 37, <<Leaf("return", 24, 30),
                TSNode("binary_expression", 31, 36, <<Leaf("identifier", 31, 32), Leaf("+",
                33, 34), Leaf("identifier", 35, 36)>>), Leaf(";", 36, 37)>>), Leaf("}", 38,
                39)>>)>>), ErrorNode(40, 41, <<Leaf("}", 40, 41)>>)>>)
      [] front_end = "Cpp" /\ source = "int f() { return aVeryLongName1 + b + c; }" ->
            TSNode("translation_unit", 0, 42, <<TSNode("function_definition", 0, 42,
                <<Leaf("primitive_type", 0, 3), TSNode("function_declarator", 4, 7,
                <<Leaf("identifier", 4, 5), TSNode("parameter_list", 5, 7, <<Leaf("(", 5,
                6), Leaf(")", 6, 7)>>)>>), TSNode("compound_statement", 8, 42, <<Leaf("{",
                8, 9), TSNode("return_statement", 10, 40, <<Leaf("return", 10, 16),
                TSNode("binary_expression", 17, 39, <<TSNode("binary_expression", 17, 35,
                <<Leaf("identifier", 17, 31), Leaf("+", 32, 33), Leaf("identifier", 34,
                35)>>), Leaf("+", 36, 37), Leaf("identifier", 38, 39)>>), Leaf(";", 39,
                40)>>), Leaf("}", 41, 42)>>)>>)>>)
      [] front_end = "CSharp" /\ source = "class C { int Add(int a, int b) { return a + b; } }" ->
            TSNode("compilation_unit", 0, 51, <<TSNode("class_declaration", 0, 51,
                <<Leaf("class", 0, 5), Leaf("identifier", 6, 7), TSNode("declaration_list",
                8, 51, <<Leaf("{", 8, 9), TSNode("method_declaration", 10, 49,
                <<Leaf("predefined_type", 10, 13), Leaf("identifier", 14, 17),
                TSNode("parameter_list", 17, 31, <<Leaf("(", 17, 18), TSNode("parameter",
                18, 23, <<Leaf("predefined_type", 18, 21), Leaf("identifier", 22, 23)>>),
                Leaf(",", 23, 24), TSNode("parameter", 25, 30, <<Leaf("predefined_type",
                25, 28), Leaf("identifier", 29, 30)>>), Leaf(")", 30, 31)>>),
                TSNode("block", 32, 49, <<Leaf("{", 32, 33), TSNode("return_statement", 34,
                47, <<Leaf("return", 34, 40), TSNode("binary_expression", 41, 46,
                <<Leaf("identifier", 41, 42), Leaf("+", 43, 44), Leaf("identifier", 45,
                46)>>), Leaf(";", 46, 47)>>), Leaf("}", 48, 49)>>)>>), Leaf("}", 50,
                51)>>)>>)>>)
      [] front_end = "Go" /\ source = "func add(a int, b int) int { return a + b }" ->
            TSNode("source_file", 0, 43, <<TSNode("function_declaration", 0, 43,
                <<Leaf("func", 0, 4), Leaf("identifier", 5, 8), TSNode("parameter_list", 8,
                22, <<Leaf("(", 8, 9), TSNode("parameter_declaration", 9, 14,
                <<Leaf("identifier", 9, 10), Leaf("type_identifier", 11, 14)>>), Leaf(",",
                14, 15), TSNode("parameter_declaration", 16, 21, <<Leaf("identifier", 16,
                17), Leaf("type_identifier", 18, 21)>>), Leaf(")", 21, 22)>>),
                Leaf("type_identifier", 23, 26), TSNode("block", 27, 43, <<Leaf("{", 27,
                28), TSNode("return_statement", 29, 41, <<Leaf("return", 29, 35),
                TSNode("expression_list", 36, 41, <<TSNode("binary_expression", 36, 41,
                <<Leaf("identifier", 36, 37), Leaf("+", 38, 39), Leaf("identifier", 40,
                41)>>)>>)>>), Leaf("}", 42, 43)>>)>>)>>)
      [] front_end = "Rust" /\ source = "fn add(a: i32, b: i32) -> i32 { a + b }" ->
            TSNode("source_file", 0, 39, <<TSNode("function_item", 0, 39, <<Leaf("fn", 0,
                2), Leaf("identifier", 3, 6), TSNode("parameters", 6, 22, <<Leaf("(", 6,
                7), TSNode("parameter", 7, 13, <<Leaf("identifier", 7, 8), Leaf(":", 8, 9),
                Leaf("primitive_type", 10, 13)>>), Leaf(",", 13, 14), TSNode("parameter",
                15, 21, <<Leaf("identifier", 15, 16), Leaf(":", 16, 17),
                Leaf("primitive_type", 18, 21)>>), Leaf(")", 21, 22)>>), Leaf("->", 23,
                25), Leaf("primitive_type", 26, 29), TSNode("block", 30, 39, <<Leaf("{",
                30, 31), TSNode("binary_expression", 32, 37, <<Leaf("identifier", 32, 33),
                Leaf("+", 34, 35), Leaf("identifier", 36, 37)>>), Leaf("}", 38, 39)>>)>>)>>)

(***************************************************************************)
(* The JavaScript front end (coalesce-parser/src/javascript.rs)            *)
(***************************************************************************)
\* JavaScriptParser::find_child_by_kind and children_by_kind
find_child_by_kind(node, kind) == find_child(node, {kind})
children_by_kind(node, kind) == SelectSeq(node.children, LAMBDA child : child.kind = kind)

\* JavaScriptParser::generate_node_id
generate_node_id(node, source) ==
    node.kind
    \o "_" \o ToString(start_row(node, source))
    \o "_" \o ToString(start_column(node, source))
    \o "_" \o replace_non_alphanumeric(Take(node_text(node, source), 20))

\* the ParseError of a declaration without a name child
missing_name(what, node, source) ==
    Err(ParseError(what \o " missing name", start_row(node, source) + 1,
                   start_column(node, source)))

\* the children the cursor reaches after goto_first_child() in a
\* `while cursor.goto_next_sibling()` loop: all but the first
next_siblings(node) == IF node.children = <<>> THEN <<>> ELSE Tail(node.children)

not_extra(node) == SelectSeq(node.children, LAMBDA child : ~child.is_extra)

\* JavaScriptParser::extract_parameters (always Ok): a Variable per identifier
extract_parameters(params_node, source) ==
    LET ids == children_by_kind(params_node, "identifier")
    IN [i \in 1..Len(ids) |->
           ParsedNode(generate_node_id(ids[i], source), "Variable",
                      Some(node_text(ids[i], source)), <<>>)]

RECURSIVE ast_to_uir(_, _)
RECURSIVE push_converted(_, _)
RECURSIVE extract_function_body(_, _)
RECURSIVE convert_program(_, _)
RECURSIVE convert_function_declaration(_, _)
RECURSIVE convert_arrow_function(_, _)
RECURSIVE convert_class_declaration(_, _)
RECURSIVE convert_method(_, _)
RECURSIVE convert_variable_declaration(_, _)
RECURSIVE convert_return_statement(_, _)
RECURSIVE convert_if_statement(_, _)
RECURSIVE convert_call_expression(_, _)
RECURSIVE convert_binary_expression(_, _)
RECURSIVE convert_generic(_, _)

\* `if let Ok(uir) = self.ast_to_uir(child, source) { children.push(uir) }`
\* over the nodes: the conversions that are Ok, in order
push_converted(nodes, source) ==
    IF nodes = <<>> THEN <<>>
    ELSE (IF ast_to_uir(Head(nodes), source).ok
          THEN <<ast_to_uir(Head(nodes), source).v>> ELSE <<>>)
         \o push_converted(Tail(nodes), source)

\* JavaScriptParser::extract_function_body (always Ok)
extract_function_body(body_node, source) ==
    push_converted(SelectSeq(body_node.children,
                             LAMBDA child : ~child.is_extra /\ child.kind \notin {"{", "}"}),
                   source)

convert_program(node, source) ==
    Ok(ParsedNode(generate_node_id(node, source), "Module", Some("javascript_program"),
                  push_converted(not_extra(node), source)))

\* the parameters and the body statements of a function-like node
function_children(node, source) ==
    (IF find_child_by_kind(node, "formal_parameters").some
     THEN extract_parameters(find_child_by_kind(node, "formal_parameters").v, source)
     ELSE <<>>)
    \o (IF find_child_by_kind(node, "statement_block").some
        THEN extract_function_body(find_child_by_kind(node, "statement_block").v, source)
        ELSE <<>>)

convert_function_declaration(node, source) ==
    LET name_node == find_child_by_kind(node, "identifier")
    IN IF ~name_node.some THEN missing_name("Function", node, source)
       ELSE Ok(ParsedNode(generate_node_id(node, source), "Function",
                          Some(node_text(name_node.v, source)),
                          function_children(node, source)))

convert_arrow_function(node, source) ==
    LET params_node == find_child_by_kind(node, "formal_parameters")
        param_node == find_child_by_kind(node, "identifier")
        parameters ==
            IF params_node.some THEN extract_parameters(params_node.v, source)
            ELSE IF param_node.some
                 THEN <<ParsedNode(generate_node_id(param_node.v, source), "Variable",
                                   Some(node_text(param_node.v, source)), <<>>)>>
                 ELSE <<>>
        body_node == find_child_by_kind(node, "statement_block")
        rest == SelectSeq(next_siblings(node),
                          LAMBDA child : child.kind \notin {"=>", "formal_parameters",
                                                            "identifier"})
        body_children ==
            IF body_node.some THEN extract_function_body(body_node.v, source)
            ELSE IF rest = <<>> THEN <<>>
                 ELSE push_converted(<<Head(rest)>>, source)
    IN Ok(ParsedNode(generate_node_id(node, source), "Function", Some("arrow_function"),
                     parameters \o body_children))

convert_class_declaration(node, source) ==
    LET name_node == find_child_by_kind(node, "identifier")
        body_node == find_child_by_kind(node, "class_body")
    IN IF ~name_node.some THEN missing_name("Class", node, source)
       ELSE Ok(ParsedNode(generate_node_id(node, source), "Class",
                          Some(node_text(name_node.v, source)),
                          IF body_node.some
                          THEN push_converted(not_extra(body_node.v), source)
                          ELSE <<>>))

convert_method(node, source) ==
    LET name_node == IF find_child_by_kind(node, "property_identifier").some
                     THEN find_child_by_kind(node, "property_identifier")
                     ELSE find_child_by_kind(node, "identifier")
    IN IF ~name_node.some THEN missing_name("Method", node, source)
       ELSE Ok(ParsedNode(generate_node_id(node, source), "Function",
                          Some(node_text(name_node.v, source)),
                          function_children(node, source)))

\* the Variable node of one variable_declarator that has an identifier child
declarator_node(declarator, source) ==
    LET rest == SelectSeq(next_siblings(declarator),
                          LAMBDA child : child.kind \notin {"identifier", "="})
    IN ParsedNode(generate_node_id(declarator, source), "Variable",
                  Some(node_text(find_child_by_kind(declarator, "identifier").v, source)),
                  IF rest = <<>> THEN <<>> ELSE push_converted(<<Head(rest)>>, source))

convert_variable_declaration(node, source) ==
    LET named == SelectSeq(children_by_kind(node, "variable_declarator"),
                           LAMBDA d : find_child_by_kind(d, "identifier").some)
    IN Ok(ParsedNode(generate_node_id(node, source), "Statement(Expression)",
                     Some("variable_declaration"),
                     [i \in 1..Len(named) |-> declarator_node(named[i], source)]))

\* a return statement that keeps the closing ";" among its children
convert_return_statement_with_semicolon(node, source) ==
    Ok(ParsedNode(generate_node_id(node, source), "Statement(Return)", None,
                  push_converted(next_siblings(node), source)))

convert_return_statement(node, source) ==
    Ok(ParsedNode(generate_node_id(node, source), "Statement(Return)", None,
                  push_converted(SelectSeq(next_siblings(node),
                                           LAMBDA child : child.kind # ";"),
                                 source)))

\* the node an if_statement child contributes, if any
if_child(child) ==
    CASE child.kind = "parenthesized_expression" ->
            IF find_child_by_kind(child, "binary_expression").some
            THEN <<find_child_by_kind(child, "binary_expression").v>>
            ELSE IF find_child_by_kind(child, "identifier").some
            THEN <<find_child_by_kind(child, "identifier").v>>
            ELSE IF find_child_by_kind(child, "call_expression").some
            THEN <<find_child_by_kind(child, "call_expression").v>>
            ELSE <<>>
      [] child.kind \in {"statement_block", "expression_statement"} -> <<child>>
      [] OTHER -> <<>>

convert_if_statement(node, source) ==
    Ok(ParsedNode(generate_node_id(node, source), "ControlFlow(Conditional)",
                  Some("if_statement"),
                  push_converted(Flatten([i \in 1..Len(node.children) |->
                                             if_child(node.children[i])]), source)))

convert_call_expression(node, source) ==
    LET func_node == IF find_child_by_kind(node, "identifier").some
                     THEN find_child_by_kind(node, "identifier")
                     ELSE find_child_by_kind(node, "member_expression")
        args_node == find_child_by_kind(node, "arguments")
    IN Ok(ParsedNode(generate_node_id(node, source), "Expression(FunctionCall)", None,
                     (IF func_node.some THEN push_converted(<<func_node.v>>, source)
                      ELSE <<>>)
                     \o (IF args_node.some
                         THEN push_converted(
                                  SelectSeq(args_node.v.children,
                                            LAMBDA child : child.kind \notin {"(", ")", ","}),
                                  source)
                         ELSE <<>>)))

BinaryOperators == {"+", "-", "*", "/", "%", "==", "!=", "<", ">", "<=", ">=", "&&", "||"}

convert_binary_expression(node, source) ==
    Ok(ParsedNode(generate_node_id(node, source), "Expression(Arithmetic)", None,
                  push_converted(SelectSeq(node.children,
                                           LAMBDA child : child.kind \notin BinaryOperators),
                                 source)))

convert_identifier(node, source) ==
    Ok(ParsedNode(generate_node_id(node, source), "Expression(Variable)",
                  Some(node_text(node, source)), <<>>))

convert_literal(node, source) ==
    Ok(ParsedNode(generate_node_id(node, source), "Expression(Literal)", None, <<>>))

convert_generic(node, source) ==
    Ok(ParsedNode(generate_node_id(node, source), map_node_type(node.kind),
                  Some(node.kind), push_converted(not_extra(node), source)))

ast_to_uir(node, source) ==
    CASE node.kind = "program" -> convert_program(node, source)
      [] node.kind = "function_declaration" -> convert_function_declaration(node, source)
      [] node.kind = "arrow_function" -> convert_arrow_function(node, source)
      [] node.kind = "class_declaration" -> convert_class_declaration(node, source)
      [] node.kind = "method_definition" -> convert_method(node, source)
      [] node.kind = "variable_declaration" -> convert_variable_declaration(node, source)
      [] node.kind = "return_statement" -> convert_return_statement(node, source)
      [] node.kind = "if_statement" -> convert_if_statement(node, source)
      [] node.kind = "call_expression" -> convert_call_expression(node, source)
      [] node.kind = "binary_expression" -> convert_binary_expression(node, source)
      [] node.kind = "identifier" -> convert_identifier(node, source)
      [] node.kind \in {"number", "string", "true", "false"} -> convert_literal(node, source)
      [] OTHER -> convert_generic(node, source)

\* JavaScriptParser::handle_parse_error
handle_parse_error(source, root) ==
    Ok(ParsedNode("error_recovery", "Module", Some("partial_parse"), <<>>))

\* JavaScriptParser::parse_source on the tree the grammar engine returns
parse_source(tree, source) ==
    IF has_error(tree) THEN handle_parse_error(source, tree) ELSE ast_to_uir(tree, source)

\* The regular expressions of the F# and Visual Basic front ends:
\* fsharp_module    (?m)^module\s+(\w+(?:\.\w+)*)\s*=?\s*$
\* fsharp_type      (?m)^type\s+(\w+)(?:\s*=)?
\* fsharp_function  (?m)^let\s+(\w+)\s+([^=]+?)\s*=
\* fsharp_let       (?m)^let\s+(\w+)\s*=\s*([^=\r\n]+)
\* vb_namespace     (?mi)^Namespace\s+(\w+(?:\.\w+)*)\s*$
\* vb_module        (?mi)^(?:Public\s+|Private\s+)?Module\s+(\w+)\s*$
\* vb_class         (?mi)^(?:Public\s+|Private\s+)?Class\s+(\w+)\s*$
\* vb_function      (?mi)^(?:Public\s+|Private\s+|Protected\s+)?Function\s+(\w+)\s*\(([^)]*)\)(?:\s+As\s+\w+)?\s*$
\* vb_sub           (?mi)^(?:Public\s+|Private\s+|Protected\s+)?Sub\s+(\w+)\s*\(([^)]*)\)\s*$
\* vb_property      (?mi)^(?:Public\s+|Private\s+|Protected\s+)?Property\s+(\w+)\s*(?:\([^)]*\))?\s*As\s+\w+\s*$
\* Regex::captures_iter(source) for the sources below: the matches in text
\* order, each with the spans of its groups 1 and 2
SourceMatches(regex, source) ==
    CASE regex = "fsharp_module" /\ source = "\nmodule Math =\n    let add x y = x + y\n    let multiply x y = x * y\n" ->
            << Match(1, 14, ("1" :> <<8, 12>>)) >>
      [] regex = "fsharp_type" /\ source = "\ntype Person = {\n    Name: string\n    Age: int\n}\n" ->
            << Match(1, 14, ("1" :> <<6, 12>>)) >>
      [] regex = "fsharp_function" /\ source = "let add x y = x + y" ->
            << Match(0, 13, ("1" :> <<4, 7>>) @@ ("2" :> <<8, 11>>)) >>
      [] regex = "fsharp_function" /\ source = "let add x y = x + y\nlet sub x y = x - y\n" ->
            << Match(0, 13, ("1" :> <<4, 7>>) @@ ("2" :> <<8, 11>>)),
               Match(20, 33, ("1" :> <<24, 27>>) @@ ("2" :> <<28, 31>>)) >>
      [] regex = "fsharp_function" /\ source = "let main () = 0" ->
            << Match(0, 13, ("1" :> <<4, 8>>) @@ ("2" :> <<9, 11>>)) >>
      [] regex = "fsharp_let" /\ source = "let x = 1" ->
            << Match(0, 9, ("1" :> <<4, 5>>) @@ ("2" :> <<8, 9>>)) >>
      [] regex = "vb_namespace" /\ source = "Namespace App\nModule Main\nProperty Count As Integer\n" ->
            << Match(0, 13, ("1" :> <<10, 13>>)) >>
      [] regex = "vb_module" /\ source = "Namespace App\nModule Main\nProperty Count As Integer\n" ->
            << Match(14, 25, ("1" :> <<21, 25>>)) >>
      [] regex = "vb_class" /\ source = "Public Class Calc\n    Public Function Add(a As Integer) As Integer\n    End Function\nEnd Class\n" ->
            << Match(0, 17, ("1" :> <<13, 17>>)) >>
      [] regex = "vb_function" /\ source = "\nFunction Add(a As Integer, b As Integer) As Integer\n    Return a + b\nEnd Function\n" ->
            << Match(1, 52, ("1" :> <<10, 13>>) @@ ("2" :> <<14, 40>>)) >>
      [] regex = "vb_function" /\ source = "Function Add(a As Integer, b As Integer) As Integer\nEnd Function\nSub Show(a As Integer)\nEnd Sub\n" ->
            << Match(0, 51, ("1" :> <<9, 12>>) @@ ("2" :> <<13, 39>>)) >>
      [] regex = "vb_sub" /\ source = "Function Add(a As Integer, b As Integer) As Integer\nEnd Function\nSub Show(a As Integer)\nEnd Sub\n" ->
            << Match(65, 87, ("1" :> <<69, 73>>) @@ ("2" :> <<74, 86>>)) >>
      [] regex = "vb_property" /\ source = "Namespace App\nModule Main\nProperty Count As Integer\n" ->
            << Match(26, 52, ("1" :> <<35, 40>>)) >>
      [] OTHER -> <<>>

\* JavaScript sources: two functions, a class with a method named by a string, a
\* source with a syntax error, a chained sum
JavaScriptSources ==
    {"function add(a, b) { return a + b; }",
     "function first(x, y, z) { return x + z; }",
     "class A { 'm'() { return 1; } n() { return 2; } }",
     "function add(a, b) { return a + b; }\nfunction (",
     "aVeryLongIdentifierName + b + c;"}

\* C++ sources: a function, an anonymous namespace, a stray brace, a chained sum
CppSources ==
    {"int add(int a, int b) { return a + b; }",
     "namespace { }",
     "int add(int a, int b) { return a + b; }\n}",
     "int f() { return aVeryLongName1 + b + c; }"}

\* a C# method
CSharpSources ==
    {"class C { int Add(int a, int b) { return a + b; } }"}

\* a Go function
GoSources ==
    {"func add(a int, b int) int { return a + b }"}

\* a Rust function
RustSources ==
    {"fn add(a: i32, b: i32) -> i32 { a + b }"}

\* F# sources: functions, a function of unit, a value, a module, a type
FSharpSources ==
    {"let add x y = x + y",
     "let add x y = x + y\nlet sub x y = x - y\n",
     "let main () = 0",
     "let x = 1",
     "\nmodule Math =\n    let add x y = x + y\n    let multiply x y = x * y\n",
     "\ntype Person = {\n    Name: string\n    Age: int\n}\n"}

\* Visual Basic sources: functions, a sub, a class, a namespace with a module
VisualBasicSources ==
    {"\nFunction Add(a As Integer, b As Integer) As Integer\n    Return a + b\nEnd Function\n",
     "Function Add(a As Integer, b As Integer) As Integer\nEnd Function\nSub Show(a As Integer)\nEnd Sub\n",
     "Public Class Calc\n    Public Function Add(a As Integer) As Integer\n    End Function\nEnd Class\n",
     "Namespace App\nModule Main\nProperty Count As Integer\n"}

(***************************************************************************)
(* The F# and Visual Basic front ends (fsharp.rs, vb.rs): regular          *)
(* expressions over the source text, no syntax tree                        *)
(***************************************************************************)
\* caps.get(g).unwrap().as_str()
group(source, m, g) == as_str(source, m.groups[g])

\* one childless node per match, named by group 1
match_nodes(regex, source, prefix, node_type) ==
    [i \in 1..Len(SourceMatches(regex, source)) |->
        ParsedNode(prefix \o group(source, SourceMatches(regex, source)[i], "1"),
                   node_type,
                   Some(group(source, SourceMatches(regex, source)[i], "1")), <<>>)]

\* the Variable nodes of the parameter names that are words
RECURSIVE param_nodes(_)
param_nodes(names) ==
    IF names = <<>> THEN <<>>
    ELSE (IF is_word(Head(names))
          THEN <<ParsedNode("param_" \o Head(names), "Variable", Some(Head(names)), <<>>)>>
          ELSE <<>>)
         \o param_nodes(Tail(names))

\* FSharpParser::parse_modules, parse_types
fsharp_parse_modules(source) == match_nodes("fsharp_module", source, "module_", "Module")
fsharp_parse_types(source) == match_nodes("fsharp_type", source, "type_", "Class")

\* FSharpParser::parse_functions: a match is a function when its parameter
\* text has a letter
fsharp_function(source, m) ==
    LET params_str == trim(group(source, m, "2"))
    IN IF params_str # "" /\ \E i \in 1..Len(params_str) : is_alphabetic(CharAt(params_str, i))
       THEN <<ParsedNode("func_" \o group(source, m, "1"), "Function",
                         Some(group(source, m, "1")),
                         param_nodes(split_whitespace(params_str)))>>
       ELSE <<>>

fsharp_parse_functions(source) ==
    Flatten([i \in 1..Len(SourceMatches("fsharp_function", source)) |->
                fsharp_function(source, SourceMatches("fsharp_function", source)[i])])

\* FSharpParser::parse_let_bindings
fsharp_let_binding(source, m) ==
    IF whitespace_count(as_str(source, <<m.start, m.end>>)) <= 3
    THEN <<ParsedNode("var_" \o group(source, m, "1"), "Variable",
                      Some(group(source, m, "1")), <<>>)>>
    ELSE <<>>

fsharp_parse_let_bindings(source) ==
    Flatten([i \in 1..Len(SourceMatches("fsharp_let", source)) |->
                fsharp_let_binding(source, SourceMatches("fsharp_let", source)[i])])

parse_fsharp_source(source) ==
    Ok(ParsedNode("fsharp_program", "Module", Some("fsharp_program"),
                  fsharp_parse_modules(source) \o fsharp_parse_types(source)
                  \o fsharp_parse_functions(source) \o fsharp_parse_let_bindings(source)))

\* the first word of each comma-separated parameter, where there is one
RECURSIVE first_words(_)
first_words(params) ==
    IF params = <<>> THEN <<>>
    ELSE (IF split_whitespace(trim(Head(params))) = <<>> THEN <<>>
          ELSE <<Head(split_whitespace(trim(Head(params))))>>)
         \o first_words(Tail(params))

\* the node of one Function or Sub match with its parameter nodes
vb_callable(source, m, prefix) ==
    LET params_str == IF "2" \in DOMAIN m.groups THEN trim(group(source, m, "2")) ELSE ""
    IN ParsedNode(prefix \o group(source, m, "1"), "Function",
                  Some(group(source, m, "1")),
                  IF params_str # "" THEN param_nodes(first_words(split(params_str, ",")))
                  ELSE <<>>)

\* VisualBasicParser::parse_namespaces, parse_modules, parse_classes,
\* parse_functions, parse_subs, parse_properties
vb_parse_namespaces(source) == match_nodes("vb_namespace", source, "namespace_", "Module")
vb_parse_modules(source) == match_nodes("vb_module", source, "module_", "Module")
vb_parse_classes(source) == match_nodes("vb_class", source, "class_", "Class")
vb_parse_functions(source) ==
    [i \in 1..Len(SourceMatches("vb_function", source)) |->
        vb_callable(source, SourceMatches("vb_function", source)[i], "func_")]
vb_parse_subs(source) ==
    [i \in 1..Len(SourceMatches("vb_sub", source)) |->
        vb_callable(source, SourceMatches("vb_sub", source)[i], "sub_")]
vb_parse_properties(source) == match_nodes("vb_property", source, "prop_", "Variable")

parse_vb_source(source) ==
    Ok(ParsedNode("vb_program", "Module", Some("vb_program"),
                  vb_parse_namespaces(source) \o vb_parse_modules(source)
                  \o vb_parse_classes(source) \o vb_parse_functions(source)
                  \o vb_parse_subs(source) \o vb_parse_properties(source)))

(***************************************************************************)
(* Parser::parse of the seven front ends                                   *)
(***************************************************************************)
parse(front_end, source) ==
    CASE front_end = "JavaScript" -> parse_source(ts_parse(front_end, source), source)
      [] front_end \in {"Cpp", "CSharp", "Go", "Rust"}
            -> convert_to_uir(front_end, source, ts_parse(front_end, source))
      [] front_end = "FSharp" -> parse_fsharp_source(source)
      [] OTHER -> parse_vb_source(source)

Parsers == FrontEnds \cup {"FSharp", "VisualBasic"}

SourcesOf(front_end) ==
    CASE front_end = "JavaScript" -> JavaScriptSources
      [] front_end = "Cpp" -> CppSources
      [] front_end = "CSharp" -> CSharpSources
      [] front_end = "Go" -> GoSources
      [] front_end = "Rust" -> RustSources
      [] front_end = "FSharp" -> FSharpSources
      [] OTHER -> VisualBasicSources

MaxRemembered == 1    \* parses whose result the history keeps

\* what the history holds after parse(front_end, source) returned result: the
\* first result of a remembered text, and whether another text was parsed since
Remember(front_end, source, result) ==
    LET key == <<front_end, source>>
        others == [k \in DOMAIN parsed |->
                      IF k = key THEN parsed[k] ELSE [parsed[k] EXCEPT !.others = TRUE]]
    IN IF key \notin DOMAIN parsed /\ Cardinality(DOMAIN parsed) < MaxRemembered
       THEN MapPut(others, key, [result |-> result, others |-> FALSE])
       ELSE others

\* a caller parses a source with one of the front ends
Parse ==
    /\ Idle
    /\ \E front_end \in Parsers :
          \E source \in SourcesOf(front_end) :
              /\ call' = [op |-> "parse", front_end |-> front_end, source |-> source]
              /\ ret' = parse(front_end, source)
              /\ parsed' = Remember(front_end, source, parse(front_end, source))
    /\ UNCHANGED <<patterns, ecosystems, lastWrite, threads>>

NextParse == Parse \/ ConvertToUir \/ AstToUir \/ CreateParser \/ Return

SpecParse == InitParse /\ [][NextParse]_vars

(***************************************************************************)
(* Front-end claims                                                        *)
(***************************************************************************)
IsConvertCall == call.op = "convert_to_uir"

\* the class the fallback rule gives a kind
FallbackClass(kind) ==
    IF Contains(kind, "statement") THEN "Statement(Expression)"
    ELSE IF Contains(kind, "expression") THEN "Expression(Variable)"
    ELSE "Expression(Literal)"

\* C10: in every tree-based front end a node kind that the mapping table does
\* not list is classified Statement(Expression) if it contains "statement",
\* else Expression(Variable) if it contains "expression", else
\* Expression(Literal), and the classification does not fail.
C10_FallbackClassification ==
    (IsConvertCall /\ call.kind \notin ListedKinds(call.front_end))
    => /\ ret.ok
       /\ ret.v = FallbackClass(call.kind)

IsCreateParserCall == call.op = "create_parser"

\* the languages create_parser has no front end for
Unregistered == {"Python", "Cobol", "TypeScript", "Java", "Fortran"}

\* C15: create_parser fails with UnsupportedLanguage for a language that has
\* no registered front end (Python, Cobol, TypeScript, Java, Fortran) and, for
\* every registered language, returns a parser whose language() is the
\* requested language.
C15_FactoryUnsupported ==
    IsCreateParserCall
    => IF call.language \in Unregistered
       THEN ~ret.ok /\ ret.err = UnsupportedLanguage(call.language)
       ELSE ret.ok /\ ret.v.language = call.language

IsParseCall == call.op = "parse"
IsTreeParse == IsParseCall /\ call.front_end \in FrontEnds

\* the syntax tree of the call's source
CallTree == ts_parse(call.front_end, call.source)

\* the nodes of a returned tree and of a syntax tree, in document order
RECURSIVE UirNodes(_)
UirNodes(n) == <<n>> \o Flatten([i \in 1..Len(n.children) |-> UirNodes(n.children[i])])

RECURSIVE SyntaxNodes(_)
SyntaxNodes(n) == <<n>> \o Flatten([i \in 1..Len(n.children) |-> SyntaxNodes(n.children[i])])

\* the syntax tree without the children flagged as errors, at every level
RECURSIVE WithoutErrors(_)
WithoutErrors(n) ==
    [n EXCEPT !.children =
        [i \in 1..Len(SelectSeq(n.children, LAMBDA c : ~c.is_error)) |->
            WithoutErrors(SelectSeq(n.children, LAMBDA c : ~c.is_error)[i])]]

\* the normalization of a syntax tree by a tree-based front end
Normalized(front_end, source, tree) ==
    IF front_end = "JavaScript" THEN ast_to_uir(tree, source)
    ELSE convert_to_uir(front_end, source, tree)

\* C11: when the grammar engine flags nodes of the syntax tree as errors,
\* parse of a tree-based front end returns Ok with the tree that leaves out
\* exactly the flagged children and holds the normalized other nodes: the
\* normalization of the syntax tree without its error nodes.
C11_ErrorNodeSkipping ==
    (IsTreeParse /\ has_error(CallTree))
    => /\ ret.ok
       /\ ret.v = Normalized(call.front_end, call.source, WithoutErrors(CallTree)).v

\* the id the rule gives a syntax node: kind_row_col_prefix, the prefix being
\* the first 15 characters of the node's text with spaces replaced by "_"
ClaimedId(source, node) ==
    node.kind \o "_" \o ToString(start_row(node, source))
    \o "_" \o ToString(start_column(node, source))
    \o "_" \o Replace(Take(node_text(node, source), 15), " ", "_")

\* C13: every node id a tree-based front end produces is kind_row_col_prefix
\* of a node of the syntax tree, with the first 15 characters of the node's
\* text, spaces replaced by underscores, as prefix.
C13_IdentifierForm ==
    (IsTreeParse /\ ret.ok)
    => \A u \in Range(UirNodes(ret.v)) :
          \E n \in Range(SyntaxNodes(CallTree)) : u.id = ClaimedId(call.source, n)

\* C14: within the tree one parse call returns, no two distinct nodes have
\* the same id.
C14_LocallyUniqueIds ==
    (IsParseCall /\ ret.ok)
    => \A i, j \in 1..Len(UirNodes(ret.v)) :
          UirNodes(ret.v)[i].id = UirNodes(ret.v)[j].id => i = j

\* well-formed sources that hold exactly one function definition
SingleFunctionSources ==
    {"function add(a, b) { return a + b; }",
     "function first(x, y, z) { return x + z; }",
     "int add(int a, int b) { return a + b; }",
     "func add(a int, b int) int { return a + b }",
     "fn add(a: i32, b: i32) -> i32 { a + b }",
     "let add x y = x + y",
     "let main () = 0",
     "\nFunction Add(a As Integer, b As Integer) As Integer\n    Return a + b\nEnd Function\n"}

\* C17: whenever parse returns Ok the root of the tree is a Module, and for a
\* well-formed source holding a single function definition the root has at
\* least one child.
C17_RootModule ==
    (IsParseCall /\ ret.ok)
    => /\ ret.v.node_type = "Module"
       /\ call.source \in SingleFunctionSources => ret.v.children # <<>>

\* the function a JavaScript source of the form
\* `function <name>(<params>) { return <left> + <right>; }` declares
SumFunction(source) ==
    CASE source = "function add(a, b) { return a + b; }" ->
            [name |-> "add", params |-> <<"a", "b">>, left |-> "a", right |-> "b"]
      [] source = "function first(x, y, z) { return x + z; }" ->
            [name |-> "first", params |-> <<"x", "y", "z">>, left |-> "x", right |-> "z"]

SumFunctionSources ==
    {"function add(a, b) { return a + b; }", "function first(x, y, z) { return x + z; }"}

IsSumFunctionParse ==
    IsParseCall /\ call.front_end = "JavaScript" /\ call.source \in SumFunctionSources

IsVariableExpression(node, name) ==
    node.node_type = "Expression(Variable)" /\ node.name = Some(name)

\* the Statement(Return) node wraps one Expression(Arithmetic) node whose two
\* operands are the variables left and right
IsReturnOfSum(node, left, right) ==
    /\ node.node_type = "Statement(Return)"
    /\ Len(node.children) = 1
    /\ node.children[1].node_type = "Expression(Arithmetic)"
    /\ Len(node.children[1].children) = 2
    /\ IsVariableExpression(node.children[1].children[1], left)
    /\ IsVariableExpression(node.children[1].children[2], right)

\* C18: for a JavaScript function declaration with parameters and the body
\* `return <left> + <right>;`, parse yields a root Module with one Function
\* child named after the function, whose children are one Variable node per
\* parameter in declaration order, followed by a Statement(Return) child that
\* wraps one Expression(Arithmetic) node with the two Expression(Variable)
\* operands in source order.
C18_FunctionNormalization ==
    IsSumFunctionParse
    => LET f == SumFunction(call.source)
           n == Len(f.params)
       IN /\ ret.ok
          /\ ret.v.node_type = "Module"
          /\ Len(ret.v.children) = 1
          /\ ret.v.children[1].node_type = "Function"
          /\ ret.v.children[1].name = Some(f.name)
          /\ Len(ret.v.children[1].children) = n + 1
          /\ \A i \in 1..n :
                /\ ret.v.children[1].children[i].node_type = "Variable"
                /\ ret.v.children[1].children[i].name = Some(f.params[i])
          /\ IsReturnOfSum(ret.v.children[1].children[n + 1], f.left, f.right)

C18_Witness ==
    /\ IsSumFunctionParse
    /\ call.source = "function add(a, b) { return a + b; }"
    /\ ret.ok
    /\ Len(ret.v.children[1].children) = 3

\* the syntax nodes of declaration-like constructs
DeclarationKinds ==
    {"function_declaration", "class_declaration", "method_definition",
     "function_definition", "function_declarator", "class_specifier",
     "namespace_definition", "parameter_declaration",
     "method_declaration", "function_item", "parameter"}

\* the kinds of the children that carry a name
IdentifierKinds == {"identifier", "property_identifier", "type_identifier"}

\* the node or one of its descendants is an identifier
RECURSIVE BearsIdentifier(_)
BearsIdentifier(n) ==
    \E i \in 1..Len(n.children) :
        n.children[i].kind \in IdentifierKinds \/ BearsIdentifier(n.children[i])

\* the id a front end gives the node it builds for a syntax node
IdOf(front_end, source, n) ==
    IF front_end = "JavaScript" THEN generate_node_id(n, source)
    ELSE convert_to_uir_id(source, n)

\* C19: a declaration-like construct without an identifier-bearing child is
\* in the returned tree, as a node with name = None; the missing name neither
\* raises an error nor drops the construct from its parent's children.
C19_NameNeverFails ==
    (IsTreeParse /\ ~has_error(CallTree))
    => /\ ret.ok
       /\ \A n \in Range(SyntaxNodes(CallTree)) :
             (n.kind \in DeclarationKinds /\ ~BearsIdentifier(n))
             => \E u \in Range(UirNodes(ret.v)) :
                   /\ u.id = IdOf(call.front_end, call.source, n)
                   /\ u.name = None

(***************************************************************************)
(* Further claims about the transformer, checked under SpecTransform       *)
(***************************************************************************)
\* the nodes of a tree, root first
RECURSIVE TreeNodes(_)
TreeNodes(node) ==
    <<node>> \o Flatten([i \in DOMAIN node.children |-> TreeNodes(node.children[i])])

\* a node whose library_dependency string does not decode
Undecodable(node) == HasDependencyString(node) /\ ~DecodedDependency(node).ok

\* C22: if any node of the tree, the root or a descendant at any depth, carries
\* a library_dependency string that cannot be decoded, transform of the root
\* returns an error and no tree; the input tree is the one the caller passed.
C22_AbortOnMalformed ==
    (IsTransformCall /\ ~AllDecode(call.node)) => ~ret.ok

\* the root and its child decode, the undecodable annotation is two levels down
C22_Witness ==
    /\ IsTransformCall
    /\ ~Undecodable(call.node)
    /\ Len(call.node.children) = 1
    /\ ~Undecodable(call.node.children[1])
    /\ Len(call.node.children[1].children) = 1
    /\ Undecodable(call.node.children[1].children[1])
    /\ HasDependencyString(call.node)
    /\ ~ret.ok

\* the root carries a decodable dependency with one usage, and the registry
\* offers a rule for it
SingleRuleApplied ==
    /\ IsTransformCall
    /\ HasDependencyString(call.node)
    /\ DecodedDependency(call.node).ok
    /\ Len(DecodedDependency(call.node).v.usage_patterns) = 1
    /\ AppliedUsages = {1}

\* the rule applied to the single usage of the root
SingleRule ==
    RuleFor(DecodedDependency(call.node).v.name,
            DecodedDependency(call.node).v.usage_patterns[1]).v

WrittenText(node, key, text) ==
    /\ key \in DOMAIN Annotations(node)
    /\ Annotations(node)[key] = StrVal(PlainText(text))

\* C23: a node to which a rule is applied receives transformed_from =
\* "<library>:<pattern>", transformed_to = "<target_library>:<target_pattern>"
\* and generated_code; required_imports is written if and only if the rule
\* lists imports, setup_code if and only if the rule has setup code,
\* cleanup_code if and only if it has cleanup code; neither
\* fallback_implementation nor requires_manual_implementation is written.
\* (Stated on trees whose annotations all decode, so that a tree is returned.)
C23_RuleAnnotations ==
    (SingleRuleApplied /\ AllDecode(call.node)) =>
        LET d == DecodedDependency(call.node).v
            after == Annotations(ret.v)
        IN  /\ ret.ok
            /\ WrittenText(ret.v, "transformed_from",
                           d.name \o ":" \o d.usage_patterns[1].pattern_name)
            /\ WrittenText(ret.v, "transformed_to",
                           SingleRule.target_library \o ":" \o SingleRule.target_pattern)
            /\ "generated_code" \in DOMAIN after
            /\ "required_imports" \in DOMAIN after <=> SingleRule.imports # <<>>
            /\ "required_imports" \in DOMAIN after
                  => after["required_imports"] = StrVal(to_string_imports(SingleRule.imports))
            /\ "setup_code" \in DOMAIN after <=> SingleRule.setup_code.some
            /\ SingleRule.setup_code.some
                  => WrittenText(ret.v, "setup_code", SingleRule.setup_code.v)
            /\ "cleanup_code" \in DOMAIN after <=> SingleRule.cleanup_code.some
            /\ SingleRule.cleanup_code.some
                  => WrittenText(ret.v, "cleanup_code", SingleRule.cleanup_code.v)
            /\ "fallback_implementation" \notin DOMAIN after
            /\ "requires_manual_implementation" \notin DOMAIN after

\* a rule with imports and without setup or cleanup code has been applied
C23_Witness ==
    /\ SingleRuleApplied
    /\ SingleRule.imports # <<>>
    /\ ~SingleRule.setup_code.some
    /\ ret.ok
    /\ "required_imports" \in DOMAIN Annotations(ret.v)

\* the annotation keys the transformer writes
ReservedKeys ==
    {"transformed_from", "transformed_to", "generated_code", "required_imports",
     "setup_code", "cleanup_code", "fallback_implementation",
     "requires_manual_implementation"}

\* `after` is `before` with nothing but reserved annotations added or changed,
\* at this node and at every node below it, each child being a result of
\* transform with the targets `lang` and `eco`
RECURSIVE Preserved(_, _, _, _)
Preserved(before, after, lang, eco) ==
    /\ after.id = before.id
    /\ after.node_type = before.node_type
    /\ after.name = before.name
    /\ after.source_location = before.source_location
    /\ after.metadata.source_language = before.metadata.source_language
    /\ \A k \in DOMAIN Annotations(before) \ ReservedKeys :
          /\ k \in DOMAIN Annotations(after)
          /\ Annotations(after)[k] = Annotations(before)[k]
    /\ DOMAIN Annotations(after) \subseteq DOMAIN Annotations(before) \cup ReservedKeys
    /\ "library_dependency" \notin DOMAIN Annotations(before)
          => after.metadata = before.metadata
    /\ Len(after.children) = Len(before.children)
    /\ \A i \in DOMAIN before.children :
          /\ Preserved(before.children[i], after.children[i], lang, eco)
          /\ Ok(after.children[i]) \in transform(patterns, before.children[i], lang, eco)

\* C24: the tree transform returns has at every position the id, node_type,
\* name and source_location of the input and as many children in the same
\* order; every annotation of the input other than the reserved keys is kept
\* with its value; a node without a library_dependency annotation keeps its
\* metadata; every descendant is transformed with the targets of the root.
C24_TreePreserved ==
    (IsTransformCall /\ ret.ok)
    => Preserved(call.node, ret.v, call.target_lang, call.target_ecosystem)

\* a root without dependency over a block of two different statements, both
\* of which received generated code under the explicit target ecosystem of
\* the call and are returned in the order of the input
C24_Witness ==
    /\ IsTransformCall
    /\ ret.ok
    /\ call.target_ecosystem = Some("vue")
    /\ "library_dependency" \notin DOMAIN Annotations(call.node)
    /\ Len(ret.v.children) = 1
    /\ Len(call.node.children[1].children) = 2
    /\ call.node.children[1].children[1].id # call.node.children[1].children[2].id
    /\ \A i \in 1..2 :
          /\ ret.v.children[1].children[i].id = call.node.children[1].children[i].id
          /\ "generated_code" \in DOMAIN Annotations(ret.v.children[1].children[i])
          /\ "original_text" \in DOMAIN Annotations(ret.v.children[1].children[i])
    /\ Annotations(ret.v.children[1].children[1])["generated_code"]
          # Annotations(ret.v.children[1].children[2])["generated_code"]

IsSecondPass == call.op = "transform_again"

\* C25: transform is idempotent: for a tree whose annotations decode, the
\* second pass over the returned tree, with the same target language and
\* ecosystem, returns that tree again.
C25_Idempotent ==
    IsSecondPass => ret = Ok(call.node)

(***************************************************************************)
(* The detector against the registry, checked under SpecDetect             *)
(***************************************************************************)
\* C26: every (library name, usage pattern name) pair the default detector
\* emits in a LibraryUsage is a key of the default registry, so get_pattern
\* finds a pattern for every detected usage.
C26_DetectedUsagesRegistered ==
    (IsDetectCall /\ ret.ok)
    => \A i \in DOMAIN ret.v :
          \A j \in DOMAIN ret.v[i].usage_patterns :
              get_pattern(patterns, ret.v[i].name,
                          ret.v[i].usage_patterns[j].pattern_name).some

(***************************************************************************)
(* Default targets, checked under SpecTransform                            *)
(***************************************************************************)
\* the per-language default the transformer is documented to resolve to
DocumentedDefault(language) ==
    IF language = "JavaScript" THEN "vanilla"
    ELSE IF language \in {"Rust", "Cpp"} THEN "std"
    ELSE IF language \in {"CSharp", "FSharp", "VisualBasic"} THEN "dotnet"
    ELSE "stdlib"

\* the node lists a usage of a pattern the registry holds
UsesRegisteredPattern(node) ==
    /\ HasDependencyString(node)
    /\ DecodedDependency(node).ok
    /\ \E i \in DOMAIN DecodedDependency(node).v.usage_patterns :
          get_pattern(patterns, DecodedDependency(node).v.name,
                      DecodedDependency(node).v.usage_patterns[i].pattern_name).some

IsDefaultTargetCall ==
    /\ IsTransformCall
    /\ patterns = register_defaults(EmptyMap)
    /\ call.target_ecosystem = None

\* C27: with the default registry and no explicit target ecosystem the target
\* resolves to the per-language default (JavaScript: vanilla; Rust, C++: std;
\* C#, F#, Visual Basic: dotnet; every other language: stdlib); no default
\* pattern has a rule for any of these, so every node with a usage of a
\* registered pattern receives the fallback marker and no node receives
\* generated_code.
C27_DefaultTargetFallsBack ==
    (IsDefaultTargetCall /\ ret.ok)
    => /\ ResolvedEcosystem = DocumentedDefault(call.target_lang)
       /\ \A i \in DOMAIN DefaultPatterns :
             ResolvedEcosystem \notin DOMAIN DefaultPatterns[i].transformations
       /\ Len(TreeNodes(ret.v)) = Len(TreeNodes(call.node))
       /\ \A i \in DOMAIN TreeNodes(ret.v) :
             /\ "generated_code" \notin DOMAIN Annotations(TreeNodes(ret.v)[i])
             /\ UsesRegisteredPattern(TreeNodes(call.node)[i])
                   => HasFallbackMarker(TreeNodes(ret.v)[i])

\* a react/useState usage transformed for C# without a target ecosystem
C27_Witness ==
    /\ IsDefaultTargetCall
    /\ ret.ok
    /\ call.target_lang = "CSharp"
    /\ UsesRegisteredPattern(call.node)
    /\ HasFallbackMarker(ret.v)
    /\ Len(ret.v.children) = 1
    /\ UsesRegisteredPattern(call.node.children[1])

(***************************************************************************)
(* Several usages on one node, checked under SpecTransform                 *)
(***************************************************************************)
\* the root carries a decodable dependency and a rule is applied to at least
\* one of its usages
SomeRuleApplied ==
    /\ IsTransformCall
    /\ HasDependencyString(call.node)
    /\ DecodedDependency(call.node).ok
    /\ AppliedUsages # {}

\* the last usage, in list order, to which a rule is applied
LastApplied == CHOOSE i \in AppliedUsages : \A j \in AppliedUsages : j <= i

\* C29: the usages of a node's dependency are processed in list order and
\* write the same annotation keys: after transform the node's
\* transformed_from, transformed_to and generated_code are those of the last
\* usage in list order to which a rule was applied.
C29_LastUsageWins ==
    (SomeRuleApplied /\ ret.ok)
    => LET d == DecodedDependency(call.node).v
           usage == d.usage_patterns[LastApplied]
           rule == RuleFor(d.name, usage).v
       IN  /\ WrittenText(ret.v, "transformed_from", d.name \o ":" \o usage.pattern_name)
           /\ WrittenText(ret.v, "transformed_to",
                          rule.target_library \o ":" \o rule.target_pattern)
           /\ \E code \in render_template(rule.template, usage.parameters) :
                 WrittenText(ret.v, "generated_code", code)

\* rules were applied to a useState usage and then to a useEffect usage
C29_Witness ==
    /\ SomeRuleApplied
    /\ ret.ok
    /\ AppliedUsages = {1, 2}
    /\ DecodedDependency(call.node).v.usage_patterns[1].pattern_name = "useState"
    /\ DecodedDependency(call.node).v.usage_patterns[2].pattern_name = "useEffect"
    /\ WrittenText(ret.v, "transformed_from", "react:useEffect")

\* C30: generated_code is a function of the rule's template and the usage's
\* parameter map: whatever the order in which the map is visited, also when
\* the value of one parameter contains the placeholder of another, the
\* rendering is the same text.
C30_RenderingDeterministic ==
    (SomeRuleApplied /\ ret.ok)
    => LET d == DecodedDependency(call.node).v
           usage == d.usage_patterns[LastApplied]
           rule == RuleFor(d.name, usage).v
       IN  \A order \in Perms(DOMAIN usage.parameters) :
              WrittenText(ret.v, "generated_code",
                          render_in_order(rule.template, usage.parameters, order))

(***************************************************************************)
(* enhance_uir, checked under SpecEnhance                                  *)
(***************************************************************************)
IsEnhanceCall == call.op = "enhance_uir"

\* C28: enhance_uir(node, deps) annotates the given node and none of its
\* descendants; with a non-empty list the library_dependency annotation
\* decodes to exactly the last element of deps, no earlier dependency being
\* kept; with an empty list the node is unchanged.
C28_EnhanceKeepsLast ==
    IsEnhanceCall
    => /\ ret.ok
       /\ ret.v.children = call.node.children
       /\ [ret.v EXCEPT !.metadata.annotations = Annotations(call.node)] = call.node
       /\ call.deps = <<>> => ret.v = call.node
       /\ call.deps # <<>>
             => /\ HasDependencyString(ret.v)
                /\ DecodedDependency(ret.v) = Ok(call.deps[Len(call.deps)])
                /\ \A k \in DOMAIN Annotations(ret.v) :
                      k \notin DOMAIN Annotations(call.node)
                      => k \in {"library_dependency", "library_pattern", "semantic_intent"}

\* two different dependencies were handed over, on a node with a child
C28_Witness ==
    /\ IsEnhanceCall
    /\ Len(call.deps) = 2
    /\ call.deps[1] # call.deps[2]
    /\ call.deps[2].version = Some("4.2")
    /\ Len(call.node.children) = 1
    /\ DecodedDependency(ret.v) = Ok(call.deps[2])

(***************************************************************************)
(* The shared registry, checked under SpecShared                           *)
(***************************************************************************)
\* every default pattern is in the registry the threads read
AllDefaultsRegistered ==
    \A i \in DOMAIN DefaultPatterns :
        get_pattern(patterns, DefaultPatterns[i].library, DefaultPatterns[i].name)
            = Some(DefaultPatterns[i])

\* every finished call returned what it returns when run alone
SameAsAlone ==
    \A t \in DOMAIN threads :
        threads[t].pc = "done"
        => threads[t].result \in RunAlone(patterns, ecosystems, threads[t].job)

\* no step of a thread changes the registry
RegistryUntouched == patterns' = patterns /\ ecosystems' = ecosystems

\* C21: once built, the registry is read-only: transform, get_pattern,
\* find_equivalent_patterns, get_transformation_suggestions and
\* get_target_ecosystems never modify it, and under every interleaving of the
\* threads that share it each call returns what it returns when run alone;
\* the registry of a layer built by LibraryAbstractionLayer::new always holds
\* every default pattern.
C21_SharedRegistryReadOnly ==
    /\ [](AllDefaultsRegistered /\ SameAsAlone)
    /\ [][RegistryUntouched]_vars

\* a transformation finished with generated code while the other thread was
\* in the middle of its own transformation
C21_Witness ==
    /\ threads[1].pc = "done"
    /\ threads[1].job.op = "transform"
    /\ threads[1].result.ok
    /\ "generated_code" \in DOMAIN Annotations(threads[1].result.v)
    /\ threads[2].pc = "usages"
    /\ threads[2].i = 2
====
